---- MODULE Spec2Model ----
(***************************************************************************)
(* A model of ModxProxyService (the session client of the MODX proxy):     *)
(* login, getProcessors, callProcessor, logout and getSessionInfo, with    *)
(* the HTTP calls they await kept in flight so that their continuations    *)
(* interleave the way the event loop lets them, and of the dispatcher      *)
(* (index.ts) that serves tools/list and tools/call on top of it.  The     *)
(* remote system is a black box: every response an HTTP call can get is    *)
(* an input.                                                               *)
(***************************************************************************)
EXTENDS Bags, FiniteSets, Integers, Sequences, TLC

(* ---------------------------------------------------------------- bounds *)

\* HTTP calls that may be awaited at the same time.
MaxInflight == 2

(* ------------------------------------------------------------- JS values *)

\* JSON and JavaScript values are strings here; objects are named by the
\* string of their literal and their fields are read by lookup operators.
Undef == "undefined"
Null == "null"
JTrue == "true"
JFalse == "false"
EmptyStr == ""

\* A key a JSON body does not have.  Reading it gives undefined.
Absent == "absent"

Get(v) == IF v = Absent THEN Undef ELSE v

\* The values JavaScript treats as false in a condition and in ||.
Falsy == {Undef, Null, JFalse, "0", EmptyStr}

Truthy(v) == v \notin Falsy

\* a || b
JsOr(a, b) == IF Truthy(a) THEN a ELSE b

\* An optional field of an object: <<>> when the key is missing, <<v>> else.
None == <<>>

Some(v) == <<v>>

(* ------------------------------------------------------------------ URLs *)

\* URLs are sequences of characters; "h" stands for any character but "/".
Slash == "/"

\* baseUrl.replace(/\/$/, ''): one trailing slash is removed.
StripTrailingSlash(s) ==
  IF Len(s) > 0 /\ s[Len(s)] = Slash THEN SubSeq(s, 1, Len(s) - 1) ELSE s

\* process.env.MODX_BASE_URL || 'http://localhost'
DefaultBaseUrl == <<"h">>

\* normalizePath(path): the path starts and ends with a slash.
normalizePath(path) ==
  LET p1 == IF Len(path) > 0 /\ path[1] = Slash THEN path ELSE <<Slash>> \o path
  IN  IF p1[Len(p1)] = Slash THEN p1 ELSE p1 \o <<Slash>>

\* process.env.MODX_CONNECTOR_PATH || '/connectors/', normalized.
connectorPath == normalizePath(<<"c">>)

\* '/assets/components/modx-mcp/connector.php'
modxMcpConnectorPath == <<Slash, "m">>

\* The baseUrl arguments of login: none, '', '/', 'h', 'h/', '//'.
BaseUrlArgs ==
  {None, Some(<<>>), Some(<<Slash>>), Some(<<"h">>), Some(<<"h", Slash>>),
   Some(<<Slash, Slash>>)}

\* The baseUrl arguments of login where the URL itself is not in question.
PlainBaseUrlArgs == {None, Some(<<"h", Slash>>)}

(* ------------------------------------------------------ remote responses *)

\* The objects a login response carries in "object".
LoginObjects == {"{token:T1}", "{token:T2}"}

\* result.object?.token
TokenOf(o) ==
  CASE o = "{token:T1}" -> "T1"
    [] o = "{token:T2}" -> "T2"
    [] OTHER -> Undef

\* The objects a discovery response carries in "object".
ListObjects == {"{PL1}", "{}"}

\* result.object.processors, .total, .generated_at
ProcessorsOf(o) ==
  CASE o = "{PL1}" -> "[p1]"
    [] o = "{PL2}" -> "[p1,p2]"
    [] o = "{PL3}" -> "[p1,p3]"
    [] OTHER -> Undef

TotalOf(o) ==
  CASE o = "{PL1}" -> "1"
    [] o = "{PL2}" -> "2"
    [] o = "{PL3}" -> "2"
    [] OTHER -> Undef

GeneratedAtOf(o) ==
  CASE o = "{PL1}" -> "t1"
    [] o = "{PL2}" -> "t2"
    [] o = "{PL3}" -> "t3"
    [] OTHER -> Undef

\* A JSON object body: the keys the service reads, Absent when missing.
Body(success, message, object, data, results, errors) ==
  [success |-> success, message |-> message, object |-> object,
   data |-> data, results |-> results, errors |-> errors]

NoBody == Body(Absent, Absent, Absent, Absent, Absent, Absent)

\* What an awaited httpClient.post can give:
\*   json     a 2xx response whose body is a JSON object
\*   jsonnull a 2xx response whose body is the JSON value null
\*   text     a 2xx response whose body is not JSON (response.data is a string)
\*   status   a response axios rejects for its status (401, 403, 500)
\*   network  no response at all (error.response is undefined)
\* setCookie: the response has a Set-Cookie header.
Response(kind, status, body) ==
  [kind |-> kind, status |-> status, body |-> body, setCookie |-> FALSE]

\* The same response with a Set-Cookie header.
WithCookie(resp) == [resp EXCEPT !.setCookie = TRUE]

ErrorStatuses == {401, 403, 500}

FailureResponses ==
  {Response("status", s, NoBody) : s \in ErrorStatuses}
    \cup {Response("network", 0, NoBody), Response("text", 200, NoBody),
          Response("jsonnull", 200, NoBody)}

\* Login bodies: accepted (success is truthy) with the user in object, in
\* data or nowhere; rejected (success is false or missing) with or without
\* a message.
LoginBodies ==
  {Body(s, Absent, o, Absent, Absent, Absent) : s \in {JTrue, "1"}, o \in LoginObjects}
    \cup {Body(s, Absent, Absent, d, Absent, Absent) :
            s \in {JTrue, "1"}, d \in {Absent, "{user}"}}
    \cup {Body(s, m, Absent, Absent, Absent, Absent) :
            s \in {JFalse, Absent}, m \in {Absent, "denied"}}

LoginResponses == FailureResponses \cup {Response("json", 200, b) : b \in LoginBodies}

DiscoveryBodies ==
  {Body(s, m, o, Absent, Absent, Absent) :
     s \in {JTrue, JFalse, Absent}, m \in {Absent, "denied"},
     o \in ListObjects \cup {Absent}}

DiscoveryResponses ==
  FailureResponses \cup {Response("json", 200, b) : b \in DiscoveryBodies}

CallBodies ==
  {Body(s, Absent, Absent, Absent, Absent, Absent) : s \in {JTrue, JFalse, Absent}}

CallResponses ==
  FailureResponses \cup {Response("json", 200, b) : b \in CallBodies}

\* axios.isAxiosError(error): the error came from the HTTP call itself.
IsAxiosError(resp) == resp.kind \in {"status", "network"}

\* A slip: the 401 is not taken for an expired session.
IsSessionExpiry403Only(resp) == resp.kind = "status" /\ resp.status = 403

\* error.response?.status === 401 || error.response?.status === 403
IsSessionExpiry(resp) == resp.kind = "status" /\ resp.status \in {401, 403}

(* ----------------------------------------------------------------- state *)

VARIABLES
  baseUrl,          \* this.baseUrl
  isAuthenticated,  \* this.isAuthenticated
  sessionInfo,      \* this.sessionInfo
  processorCache,   \* this.processorCache: None (null) or Some(list)
  authToken,        \* this.authToken
  inflight,         \* the HTTP calls awaited, a bag of requests
  lastEvt,          \* what the last step did, as its caller sees it
  lastLogin,        \* history: None, or Some(response body) of the login that succeeded last
  expired,          \* history: a callProcessor got a 401 and no login has succeeded since
  cookieJar,        \* this.cookieJar: TRUE when it holds a cookie
  handed,           \* the object a login result carries as sessionInfo, as it read
                    \* when login returned it, while this.sessionInfo is still
                    \* that object; None when this.sessionInfo is an object no
                    \* caller was given
  processorsCache   \* processorsCache of the dispatcher: None (null) or Some(array)

vars == <<baseUrl, isAuthenticated, sessionInfo, processorCache, authToken,
          inflight, lastEvt, lastLogin, expired, cookieJar, handed, processorsCache>>

\* { isAuthenticated: false }
EmptySession ==
  [isAuthenticated |-> FALSE, baseUrl |-> None, connectorUrl |-> None,
   user |-> None, loginTime |-> None, lastActivity |-> None]

\* A call awaiting its HTTP response: the operation that sent the request,
\* the operation that awaits that one (logout awaits a callProcessor), and
\* the locals the operation reads after the await (login: connectorUrl).
Request(op, caller, connectorUrl) ==
  [op |-> op, caller |-> caller, connectorUrl |-> connectorUrl]

\* new Date(): a time is named by the operation that read the clock.
Date(op) == Some(op)

\* The form fields of a request that matter: 'HTTP_MODAUTH': this.authToken.
Form(token) == [HTTP_MODAUTH |-> token]

\* The values that are objects.
ObjectValues == {"{o}", "{d}"}

\* URLSearchParams turns each value into a string: an object becomes
\* '[object Object]', and every other value the string that names it here.
FormValue(v) == IF v \in ObjectValues THEN "[object Object]" ELSE v

\* The arguments of one callProcessor(namespace, action, data); data is a
\* function from its keys to their values, <<>> when it has none.
Invocation(namespace, action, data) ==
  [namespace |-> namespace, action |-> action, data |-> data]

\* A slip: the caller's data is spread first and the fixed fields win.
CallProcessorFormFixedLast(namespace, action, token, data) ==
  LET fixed == [action |-> action, format |-> "json", HTTP_MODAUTH |-> token]
  IN  [k \in DOMAIN fixed \cup DOMAIN data |->
         FormValue(IF k \in DOMAIN fixed THEN fixed[k] ELSE data[k])]

\* new URLSearchParams({ action: action, format: 'json',
\*                       'HTTP_MODAUTH': this.authToken, ...data }):
\* a key of data replaces the fixed field of the same name; namespace is
\* not read.
CallProcessorForm(namespace, action, token, data) ==
  LET fixed == [action |-> action, format |-> "json", HTTP_MODAUTH |-> token]
  IN  [k \in DOMAIN fixed \cup DOMAIN data |->
         FormValue(IF k \in DOMAIN data THEN data[k] ELSE fixed[k])]

\* What a step did.  phase: "call" for the part of an operation that runs
\* when it is called, "response" for the part that runs when its HTTP call
\* completes.  kind: "sent" (an HTTP request was issued and the operation
\* awaits it; res is the form sent), "returned" (the operation returned
\* res), "threw" (it raised err).  arg: the arguments of the call.
Event(op, phase, kind, arg, err, res) ==
  [op |-> op, phase |-> phase, kind |-> kind, arg |-> arg, err |-> err, res |-> res]

NoError == "none"

Init ==
  /\ baseUrl = DefaultBaseUrl
  /\ isAuthenticated = FALSE
  /\ sessionInfo = EmptySession
  /\ processorCache = None
  /\ authToken = EmptyStr
  /\ inflight = EmptyBag
  /\ lastEvt = Event("constructor", "call", "returned", None, NoError, None)
  /\ lastLogin = None
  /\ expired = FALSE
  /\ cookieJar = FALSE
  /\ handed = None
  /\ processorsCache = None

HasRoom == BagCardinality(inflight) < MaxInflight

Send(req) == inflight (+) SetToBag({req})

Receive(req) == inflight (-) SetToBag({req})

\* The jar (axios-cookiejar-support) stores the cookies of every response.
JarAfter(jar, resp) == jar \/ resp.setCookie

(* ----------------------------------------------------------------- login *)

\* if (baseUrl) this.baseUrl = baseUrl.replace(/\/$/, '')
BaseUrlAfterLogin(cur, arg) ==
  IF arg # None /\ arg[1] # <<>> THEN StripTrailingSlash(arg[1]) ELSE cur

\* The part of login that runs before the await.
LoginCall(arg) ==
  /\ HasRoom
  /\ baseUrl' = BaseUrlAfterLogin(baseUrl, arg)
  /\ inflight' = Send(Request("login", "user", Some(baseUrl' \o connectorPath)))
  /\ lastEvt' = Event("login", "call", "sent", None, NoError, None)
  /\ UNCHANGED <<isAuthenticated, sessionInfo, processorCache, authToken,
                 lastLogin, expired, cookieJar, handed, processorsCache>>

\* A slip: no default for a rejection that carries no message.
RejectedMessageNoDefault(body) == Get(body.message)

\* result.message || 'Authentication failed'
RejectedMessage(body) == JsOr(Get(body.message), "Authentication failed")

\* The body of login's try block after the await: "ok" (result.success is
\* truthy), "rejected" (it is not) or "thrown" with the error's message.
LoginTry(resp) ==
  CASE IsAxiosError(resp) ->
         [how |-> "thrown", message |-> "request failed"]
    [] resp.kind = "text" ->
         [how |-> "thrown", message |-> "Invalid JSON response from MODX"]
    [] resp.kind = "jsonnull" ->
         [how |-> "thrown", message |-> "Cannot read properties of null"]
    [] OTHER ->
         IF Truthy(Get(resp.body.success))
         THEN [how |-> "ok", message |-> "Successfully authenticated with MODX"]
         ELSE [how |-> "rejected", message |-> RejectedMessage(resp.body)]

\* result.object || result.data
UserOf(body) == JsOr(Get(body.object), Get(body.data))

\* A slip: a token the service already has is kept.
AuthTokenKept(body) ==
  IF authToken # EmptyStr THEN authToken ELSE JsOr(TokenOf(Get(body.object)), EmptyStr)

\* result.object?.token || ''
AuthTokenOf(body) ==
  JsOr(TokenOf(Get(body.object)), EmptyStr)

\* The sessionInfo a successful login builds.
SessionAfterLogin(req, body) ==
  [isAuthenticated |-> TRUE, baseUrl |-> Some(baseUrl), connectorUrl |-> req.connectorUrl,
   user |-> Some(UserOf(body)), loginTime |-> Date("login"), lastActivity |-> Date("login")]

\* What login returns: on failure the catch block turns every error thrown
\* in the try block into a result.
LoginResult(req, resp) ==
  LET t == LoginTry(resp)
  IN  CASE t.how = "ok" ->
             [success |-> TRUE, message |-> t.message,
              user |-> Some(UserOf(resp.body)),
              sessionInfo |-> Some(SessionAfterLogin(req, resp.body))]
        [] t.how = "rejected" ->
             [success |-> FALSE, message |-> t.message, user |-> None,
              sessionInfo |-> None]
        [] OTHER ->
             [success |-> FALSE, message |-> "Authentication error: " \o t.message,
              user |-> None, sessionInfo |-> None]

\* The part of login that runs when its HTTP call completes.
LoginResponse(req, resp) ==
  LET t == LoginTry(resp)
  IN  /\ req.op = "login"
      /\ inflight' = Receive(req)
      /\ IF t.how = "ok"
         THEN /\ isAuthenticated' = TRUE
              /\ authToken' = AuthTokenOf(resp.body)
              /\ sessionInfo' = SessionAfterLogin(req, resp.body)
              /\ lastLogin' = Some(resp.body)
              /\ expired' = FALSE
              /\ handed' = Some(sessionInfo')
         ELSE /\ isAuthenticated' = FALSE
              /\ UNCHANGED <<authToken, sessionInfo, lastLogin, expired, handed>>
      /\ cookieJar' = JarAfter(cookieJar, resp)
      /\ lastEvt' = Event("login", "response", "returned", None, NoError,
                          Some(LoginResult(req, resp)))
      /\ UNCHANGED <<baseUrl, processorCache, processorsCache>>

(* --------------------------------------------------------- getProcessors *)

\* A slip: a cache that exists keeps its total and its generated_at.
ProcessorListKeepingTotal(o) ==
  [processors |-> JsOr(ProcessorsOf(o), "[]"),
   total |-> IF processorCache # None THEN processorCache[1].total
             ELSE JsOr(TotalOf(o), "0"),
   generated_at |-> IF processorCache # None THEN processorCache[1].generated_at
                    ELSE JsOr(GeneratedAtOf(o), "unknown")]

\* The list a discovery response is turned into.
ProcessorList(o) ==
  [processors |-> JsOr(ProcessorsOf(o), "[]"),
   total |-> JsOr(TotalOf(o), "0"),
   generated_at |-> JsOr(GeneratedAtOf(o), "unknown")]

\* A slip: the cache is served whatever refresh says.
ServedFromCacheIgnoringRefresh(cache, refresh) == cache # None

\* if (this.processorCache && !refresh) return this.processorCache
ServedFromCache(cache, refresh) == cache # None /\ ~refresh

\* A slip: an existing cache gets the new processors and keeps its total.
CacheAfterDiscoveryMerging(cache, list) ==
  IF cache = None THEN Some(list) ELSE Some([list EXCEPT !.total = cache[1].total])

\* this.processorCache = processorList
CacheAfterDiscovery(cache, list) == Some(list)

\* How the part of getProcessors that runs before the await ends: it
\* returns the cache, raises 'Not authenticated', or sends its request.
GetProcessorsStartKind(refresh) ==
  IF ServedFromCache(processorCache, refresh) THEN "returned"
  ELSE IF ~isAuthenticated THEN "threw"
  ELSE "sent"

\* What the part of getProcessors that runs before the await does to the
\* service; caller is who awaits the call.
GetProcessorsStart(refresh, caller) ==
  /\ IF GetProcessorsStartKind(refresh) = "sent"
     THEN /\ HasRoom
          /\ sessionInfo' = [sessionInfo EXCEPT !.lastActivity = Date("getProcessors")]
          /\ inflight' = Send(Request("getProcessors", caller, None))
     ELSE UNCHANGED <<sessionInfo, inflight>>
  /\ UNCHANGED <<baseUrl, isAuthenticated, processorCache, authToken,
                 lastLogin, expired, cookieJar, handed>>

\* The part of getProcessors that runs before the await, for a call that
\* does not come from the dispatcher.
GetProcessorsCall(refresh) ==
  LET kind == GetProcessorsStartKind(refresh)
  IN  /\ GetProcessorsStart(refresh, "user")
      /\ lastEvt' =
           CASE kind = "returned" ->
                  Event("getProcessors", "call", "returned", Some(refresh),
                        NoError, processorCache)
             [] kind = "threw" ->
                  Event("getProcessors", "call", "threw", Some(refresh),
                        "Not authenticated. Please login first.", None)
             [] OTHER ->
                  Event("getProcessors", "call", "sent", Some(refresh),
                        NoError, Some(Form(authToken)))
      /\ UNCHANGED processorsCache

\* The body of getProcessors' try block after the await: "ok" with the list,
\* or "thrown" with the error's message.
GetProcessorsTry(resp) ==
  CASE IsAxiosError(resp) ->
         [how |-> "thrown", message |-> "request failed"]
    [] resp.kind = "text" ->
         [how |-> "thrown", message |-> "Invalid JSON response from MODX component"]
    [] resp.kind = "jsonnull" ->
         [how |-> "thrown", message |-> "Cannot read properties of null"]
    [] OTHER ->
         IF Truthy(Get(resp.body.success)) /\ Truthy(Get(resp.body.object))
         THEN [how |-> "ok", message |-> NoError]
         ELSE [how |-> "thrown",
               message |-> JsOr(Get(resp.body.message),
                                "Failed to get processors from MODX component")]

\* A slip: the status is read from the error itself, which has none.
StatusTextOfError(resp) == "undefined"

\* The status in an error message: error.response?.status.
StatusText(resp) ==
  CASE resp.kind = "network" -> "undefined"
    [] resp.status = 401 -> "401"
    [] resp.status = 403 -> "403"
    [] OTHER -> "500"

\* The error the catch block of getProcessors raises.
GetProcessorsError(resp) ==
  IF IsAxiosError(resp)
  THEN IF IsSessionExpiry(resp)
       THEN "Session expired. Please login again."
       ELSE "HTTP error " \o StatusText(resp)
  ELSE "Failed to get processors: " \o GetProcessorsTry(resp).message

\* this.isAuthenticated = false; this.sessionInfo.isAuthenticated = false
ExpireSession(s) == [s EXCEPT !.isAuthenticated = FALSE]

\* How getProcessors ends when its HTTP call completes: it returns the list
\* or raises the error of its catch block.
GetProcessorsOutcome(resp) ==
  IF GetProcessorsTry(resp).how = "ok"
  THEN [kind |-> "returned", err |-> NoError,
        res |-> Some(ProcessorList(Get(resp.body.object)))]
  ELSE [kind |-> "threw", err |-> GetProcessorsError(resp), res |-> None]

\* What the part of getProcessors that runs when its HTTP call completes
\* does to the service.
GetProcessorsReceive(req, resp) ==
  LET o == GetProcessorsOutcome(resp)
  IN  /\ req.op = "getProcessors"
      /\ inflight' = Receive(req)
      /\ IF o.kind = "returned"
         THEN /\ processorCache' = CacheAfterDiscovery(processorCache, o.res[1])
              /\ UNCHANGED <<isAuthenticated, sessionInfo>>
         ELSE /\ IF IsSessionExpiry(resp)
                 THEN /\ isAuthenticated' = FALSE
                      /\ sessionInfo' = ExpireSession(sessionInfo)
                 ELSE UNCHANGED <<isAuthenticated, sessionInfo>>
              /\ UNCHANGED processorCache
      /\ cookieJar' = JarAfter(cookieJar, resp)
      /\ UNCHANGED <<baseUrl, authToken, lastLogin, expired, handed>>

\* The part of getProcessors that runs when its HTTP call completes, for a
\* call that did not come from the dispatcher.
GetProcessorsResponse(req, resp) ==
  LET o == GetProcessorsOutcome(resp)
  IN  /\ req.caller = "user"
      /\ GetProcessorsReceive(req, resp)
      /\ lastEvt' = Event("getProcessors", "response", o.kind, None, o.err, o.res)
      /\ UNCHANGED processorsCache

(* --------------------------------------------------------- callProcessor *)

\* A slip: success is computed and the body's own success does not replace it.
ProcessorResultComputedSuccess(body) ==
  LET over(k, computed) == IF body[k] # Absent THEN body[k] ELSE computed
  IN  [success |-> IF Get(body.success) # JFalse THEN JTrue ELSE JFalse,
       message |-> over("message", Get(body.message)),
       data |-> over("data", JsOr(Get(body.data),
                                  JsOr(Get(body.object), Get(body.results)))),
       errors |-> over("errors", Get(body.errors)),
       object |-> over("object", Get(body.object)),
       results |-> over("results", Get(body.results)),
       raw |-> Undef]

\* What callProcessor returns for the parsed body: the computed fields,
\* then ...result, which overwrites each of them whose key the body has.
ProcessorResult(body) ==
  LET over(k, computed) == IF body[k] # Absent THEN body[k] ELSE computed
  IN  [success |-> over("success", IF Get(body.success) # JFalse THEN JTrue ELSE JFalse),
       message |-> over("message", Get(body.message)),
       data |-> over("data", JsOr(Get(body.data),
                                  JsOr(Get(body.object), Get(body.results)))),
       errors |-> over("errors", Get(body.errors)),
       object |-> over("object", Get(body.object)),
       results |-> over("results", Get(body.results)),
       raw |-> Undef]

\* A body that is not JSON: { success: true, data: response.data, raw: true }
\* is what is then spread into the result.
RawResult ==
  [success |-> JTrue, message |-> Undef, data |-> "<text>", errors |-> Undef,
   object |-> Undef, results |-> Undef, raw |-> JTrue]

\* A slip: a body that is not JSON is an error, as it is for login.
CallProcessorTryTextThrows(resp) ==
  CASE IsAxiosError(resp) ->
         [how |-> "thrown", message |-> "request failed", res |-> None]
    [] resp.kind = "jsonnull" ->
         [how |-> "thrown", message |-> "Cannot read properties of null", res |-> None]
    [] resp.kind = "text" ->
         [how |-> "thrown", message |-> "Invalid JSON response from MODX", res |-> None]
    [] OTHER ->
         [how |-> "ok", message |-> NoError, res |-> Some(ProcessorResult(resp.body))]

\* The body of callProcessor's try block after the await.
CallProcessorTry(resp) ==
  CASE IsAxiosError(resp) ->
         [how |-> "thrown", message |-> "request failed", res |-> None]
    [] resp.kind = "jsonnull" ->
         [how |-> "thrown", message |-> "Cannot read properties of null", res |-> None]
    [] resp.kind = "text" ->
         [how |-> "ok", message |-> NoError, res |-> Some(RawResult)]
    [] OTHER ->
         [how |-> "ok", message |-> NoError, res |-> Some(ProcessorResult(resp.body))]

\* The error the catch block of callProcessor raises.
CallProcessorError(resp) ==
  IF IsAxiosError(resp)
  THEN IF IsSessionExpiry(resp)
       THEN "Session expired. Please login again."
       ELSE "HTTP error " \o StatusText(resp)
  ELSE "Processor call failed: " \o CallProcessorTry(resp).message

\* if (!this.isAuthenticated) throw new Error('Not authenticated. ...')
CallProcessorRefused == ~isAuthenticated

\* What the part of callProcessor that runs before the await does to the
\* service; req is the call as whoever awaits it remembers it.
CallProcessorStart(req) ==
  /\ IF CallProcessorRefused
     THEN UNCHANGED <<sessionInfo, inflight>>
     ELSE /\ HasRoom
          /\ sessionInfo' = [sessionInfo EXCEPT !.lastActivity = Date("callProcessor")]
          /\ inflight' = Send(req)
  /\ UNCHANGED <<baseUrl, isAuthenticated, processorCache, authToken,
                 lastLogin, expired, cookieJar, handed>>

\* The part of callProcessor that runs before the await, for a call that
\* does not come from the dispatcher.
CallProcessorCall(inv) ==
  /\ CallProcessorStart(Request("callProcessor", "user", None))
  /\ lastEvt' =
       IF CallProcessorRefused
       THEN Event("callProcessor", "call", "threw", Some(inv),
                  "Not authenticated. Please login first.", None)
       ELSE Event("callProcessor", "call", "sent", Some(inv), NoError,
                  Some(CallProcessorForm(inv.namespace, inv.action,
                                         authToken, inv.data)))
  /\ UNCHANGED processorsCache

\* A slip: the authentication test is made again when the HTTP call
\* completes, and a call whose session has ended meanwhile raises.
CallProcessorOutcomeRechecked(resp) ==
  IF ~isAuthenticated
  THEN [kind |-> "threw", err |-> "Session expired. Please login again.", res |-> None]
  ELSE IF CallProcessorTry(resp).how = "ok"
  THEN [kind |-> "returned", err |-> NoError, res |-> CallProcessorTry(resp).res]
  ELSE [kind |-> "threw", err |-> CallProcessorError(resp), res |-> None]

\* How callProcessor ends when its HTTP call completes: it returns a result
\* or raises the error of its catch block.
CallProcessorOutcome(resp) ==
  LET t == CallProcessorTry(resp)
  IN  IF t.how = "ok"
      THEN [kind |-> "returned", err |-> NoError, res |-> t.res]
      ELSE [kind |-> "threw", err |-> CallProcessorError(resp), res |-> None]

\* A slip: lastActivity is written again when the HTTP call completes.
CallProcessorReceiveTouching(req, resp) ==
  /\ req.op = "callProcessor"
  /\ inflight' = Receive(req)
  /\ IF CallProcessorOutcome(resp).kind = "threw" /\ IsSessionExpiry(resp)
     THEN /\ isAuthenticated' = FALSE
          /\ sessionInfo' = ExpireSession(sessionInfo)
     ELSE /\ sessionInfo' = [sessionInfo EXCEPT !.lastActivity = Date("response")]
          /\ UNCHANGED isAuthenticated
  /\ expired' = (expired \/ (resp.kind = "status" /\ resp.status = 401))
  /\ cookieJar' = JarAfter(cookieJar, resp)
  /\ UNCHANGED <<baseUrl, processorCache, authToken, lastLogin, handed>>

\* What the part of callProcessor that runs when its HTTP call completes
\* does to the service.
CallProcessorReceive(req, resp) ==
  /\ req.op = "callProcessor"
  /\ inflight' = Receive(req)
  /\ IF CallProcessorOutcome(resp).kind = "threw" /\ IsSessionExpiry(resp)
     THEN /\ isAuthenticated' = FALSE
          /\ sessionInfo' = ExpireSession(sessionInfo)
     ELSE UNCHANGED <<isAuthenticated, sessionInfo>>
  /\ expired' = (expired \/ (resp.kind = "status" /\ resp.status = 401))
  /\ cookieJar' = JarAfter(cookieJar, resp)
  /\ UNCHANGED <<baseUrl, processorCache, authToken, lastLogin, handed>>

\* The part of callProcessor that runs when its HTTP call completes, for a
\* call that did not come from the dispatcher.
CallProcessorResponse(req, resp) ==
  LET o == CallProcessorOutcome(resp)
  IN  /\ req.caller = "user"
      /\ CallProcessorReceive(req, resp)
      /\ lastEvt' = Event("callProcessor", "response", o.kind, None, o.err, o.res)
      /\ UNCHANGED processorsCache

(* ---------------------------------------------------------------- logout *)

\* A slip: logout clears the token and the session info, not the flag.
ClearSessionKeepingFlag ==
  [isAuthenticated |-> isAuthenticated, authToken |-> EmptyStr,
   sessionInfo |-> EmptySession]

\* this.isAuthenticated = false; this.authToken = '';
\* this.sessionInfo = { isAuthenticated: false }
ClearSession ==
  [isAuthenticated |-> FALSE, authToken |-> EmptyStr, sessionInfo |-> EmptySession]

\* What logout returns: the try block's result when nothing was thrown,
\* the catch block's result otherwise.
LogoutResult(how) ==
  [success |-> TRUE,
   message |-> IF how = "ok" THEN "Successfully logged out from MODX"
               ELSE "Logged out (session cleared locally)"]

\* The jar after logout: await this.cookieJar.removeAllCookies() is in the
\* try block only.
JarAfterLogout(how, jar) == IF how = "ok" THEN FALSE ELSE jar

\* A slip: the catch block raises the error again.
LogoutOutcomeRethrowing(how) ==
  IF how = "ok"
  THEN [kind |-> "returned", err |-> NoError, res |-> Some(LogoutResult(how))]
  ELSE [kind |-> "threw", err |-> "Logout failed", res |-> None]

\* How logout ends: both the try block and the catch block return.
LogoutOutcome(how) ==
  [kind |-> "returned", err |-> NoError, res |-> Some(LogoutResult(how))]

\* The part of logout that runs when it is called: when authenticated it
\* calls callProcessor('core', 'security/logout') and awaits it; otherwise
\* it clears the session and the cookie jar and returns.
LogoutCall ==
  /\ IF isAuthenticated
     THEN /\ HasRoom
          /\ sessionInfo' = [sessionInfo EXCEPT !.lastActivity = Date("callProcessor")]
          /\ inflight' = Send(Request("callProcessor", "logout", None))
          /\ lastEvt' = Event("logout", "call", "sent", None, NoError,
                              Some(CallProcessorForm("core", "security/logout",
                                                     authToken, <<>>)))
          /\ UNCHANGED <<isAuthenticated, authToken, cookieJar, handed>>
     ELSE /\ isAuthenticated' = ClearSession.isAuthenticated
          /\ authToken' = ClearSession.authToken
          /\ sessionInfo' = ClearSession.sessionInfo
          /\ handed' = None
          /\ cookieJar' = JarAfterLogout("ok", cookieJar)
          /\ lastEvt' = LET o == LogoutOutcome("ok")
                        IN  Event("logout", "call", o.kind, None, o.err, o.res)
          /\ UNCHANGED inflight
  /\ UNCHANGED <<baseUrl, processorCache, lastLogin, expired, processorsCache>>

\* The part of logout that runs when its callProcessor completes: when the
\* call returned, the session and the cookie jar are cleared; when it threw,
\* the catch block clears the session.
LogoutResponse(req, resp) ==
  LET t == CallProcessorTry(resp)
      o == LogoutOutcome(t.how)
  IN  /\ req.op = "callProcessor"
      /\ req.caller = "logout"
      /\ inflight' = Receive(req)
      /\ isAuthenticated' = ClearSession.isAuthenticated
      /\ authToken' = ClearSession.authToken
      /\ sessionInfo' = ClearSession.sessionInfo
      /\ handed' = None
      /\ cookieJar' = JarAfterLogout(t.how, JarAfter(cookieJar, resp))
      /\ lastEvt' = Event("logout", "response", o.kind, None, o.err, o.res)
      /\ expired' = (expired \/ (resp.kind = "status" /\ resp.status = 401))
      /\ UNCHANGED <<baseUrl, processorCache, lastLogin, processorsCache>>

(* -------------------------------------------------------- getSessionInfo *)

\* return { ...this.sessionInfo }
getSessionInfo == sessionInfo

GetSessionInfo ==
  /\ lastEvt' = Event("getSessionInfo", "call", "returned", None, NoError,
                      Some(getSessionInfo))
  /\ UNCHANGED <<baseUrl, isAuthenticated, sessionInfo, processorCache, authToken,
                 inflight, lastLogin, expired, cookieJar, handed, processorsCache>>

(* ------------------------------------------------------------ dispatcher *)

\* Names of tools, namespaces and paths are sequences of characters.
Uppers ==
  <<"A", "B", "C", "D", "E", "F", "G", "H", "I", "J", "K", "L", "M",
    "N", "O", "P", "Q", "R", "S", "T", "U", "V", "W", "X", "Y", "Z">>

Lowers ==
  <<"a", "b", "c", "d", "e", "f", "g", "h", "i", "j", "k", "l", "m",
    "n", "o", "p", "q", "r", "s", "t", "u", "v", "w", "x", "y", "z">>

Digits == {"0", "1", "2", "3", "4", "5", "6", "7", "8", "9"}

\* toLowerCase() of one character
toLowerCase(c) ==
  IF \E i \in 1..26 : Uppers[i] = c
  THEN Lowers[CHOOSE i \in 1..26 : Uppers[i] = c]
  ELSE c

\* A slip: the replacement is made without toLowerCase().
CleanKeepingCase(s) ==
  [i \in 1..Len(s) |->
     IF (\E k \in 1..26 : Lowers[k] = s[i]) \/ s[i] \in Digits THEN s[i] ELSE "_"]

\* s.toLowerCase().replace(/[^a-z0-9]/g, '_')
Clean(s) ==
  [i \in 1..Len(s) |->
     LET c == toLowerCase(s[i])
     IN  IF (\E k \in 1..26 : Lowers[k] = c) \/ c \in Digits THEN c ELSE "_"]

\* `modx_${cleanNamespace}_${cleanAction}`
processorToToolName(namespace, action) ==
  <<"m", "o", "d", "x", "_">> \o Clean(namespace) \o <<"_">> \o Clean(action)

\* The string a sequence of characters spells.
RECURSIVE Text(_)
Text(chars) == IF chars = <<>> THEN "" ELSE Head(chars) \o Text(Tail(chars))

\* One element of processor.parameters. name and type are sequences of
\* characters, empty when the field is missing or ''; required is the JSON
\* value of the flag; description is '' and default is undefined when the
\* field is missing.
Param(name, type, required, description, default) ==
  [name |-> name, type |-> type, required |-> required,
   description |-> description, default |-> default]

\* The descriptors of the operations the remote system lists.
P1 ==
  [namespace |-> <<"c", "o", "r", "e">>, path |-> <<"r", "/", "g">>,
   description |-> "d1",
   parameters |-> <<Param(<<"l", "i", "m", "i", "t">>, <<"i", "n", "t">>, JFalse,
                          "max", "20"),
                    Param(<<"_", "p">>, <<>>, JTrue, EmptyStr, Undef)>>]

P2 ==
  [namespace |-> <<"S", "h", "o", "p">>, path |-> <<"o", "r", "d", "e", "r">>,
   description |-> "d2",
   parameters |-> <<Param(<<"i", "d">>, <<"I", "n", "t", "e", "g", "e", "r">>, JTrue,
                          EmptyStr, Undef)>>]

\* An operation whose namespace and path differ from those of P1 in letter
\* case and in one character that is not a letter or a digit.
P3 ==
  [namespace |-> <<"C", "o", "r", "e">>, path |-> <<"r", "_", "g">>,
   description |-> "d3", parameters |-> <<>>]

\* The array a list of processors names.
ProcessorArray(a) ==
  CASE a = "[p1]" -> <<P1>>
    [] a = "[p1,p2]" -> <<P1, P2>>
    [] a = "[p1,p3]" -> <<P1, P3>>
    [] OTHER -> <<>>

\* modxType.toLowerCase()
LowerCase(s) == [i \in 1..Len(s) |-> toLowerCase(s[i])]

\* A slip: the type is looked up without toLowerCase().
modxTypeToJsonSchemaTypeExact(modxType) ==
  LET t == Text(modxType)
  IN  CASE t \in {"integer", "int"} -> "integer"
        [] t \in {"boolean", "bool"} -> "boolean"
        [] t \in {"string", "text"} -> "string"
        [] t = "array" -> "array"
        [] t = "object" -> "object"
        [] OTHER -> "string"

\* switch (modxType.toLowerCase()) { case ...: return ...; default: return
\* 'string' }
modxTypeToJsonSchemaType(modxType) ==
  LET t == Text(LowerCase(modxType))
  IN  CASE t \in {"integer", "int"} -> "integer"
        [] t \in {"boolean", "bool"} -> "boolean"
        [] t \in {"string", "text"} -> "string"
        [] t = "array" -> "array"
        [] t = "object" -> "object"
        [] OTHER -> "string"

PermissionCheck ==
  <<"_", "p", "e", "r", "m", "i", "s", "s", "i", "o", "n", "_", "c", "h", "e", "c", "k">>

\* !param.name || param.name === '_permission_check' ||
\* param.name.startsWith('_'): the parameter is skipped.
Skipped(param) ==
  \/ param.name = <<>>
  \/ param.name = PermissionCheck
  \/ Head(param.name) = "_"

\* What properties[param.name] is after the loop body has run for param:
\* the type, the description, and the default (None when the key is not set).
Property(param) ==
  [type |-> modxTypeToJsonSchemaType(IF param.type = <<>>
                                     THEN <<"s", "t", "r", "i", "n", "g">>
                                     ELSE param.type),
   description |-> IF param.description = EmptyStr
                   THEN "Parameter: " \o Text(param.name)
                   ELSE param.description,
   default |-> IF param.default \in {Undef, Null, EmptyStr}
               THEN None ELSE Some(param.default)]

\* properties after the loop: one key for each name of a parameter that is
\* not skipped, holding what the last parameter of that name assigned.
Properties(parameters) ==
  LET kept == {i \in 1..Len(parameters) : ~Skipped(parameters[i])}
  IN  [name \in {parameters[i].name : i \in kept} |->
         LET last == CHOOSE i \in kept :
                       /\ parameters[i].name = name
                       /\ \A j \in kept : parameters[j].name = name => j <= i
         IN  Property(parameters[last])]

\* A slip: a parameter is required when its flag is truthy.
IsRequiredTruthy(param) ==
  ~Skipped(param) /\ param.required \in {JTrue, "1"}

\* if (param.required === true) required.push(param.name), for a parameter
\* that is not skipped
IsRequired(param) ==
  ~Skipped(param) /\ param.required = JTrue

\* required after the loop: the names pushed, in the order of the parameters.
Required(parameters) ==
  LET pushed == SelectSeq(parameters, IsRequired)
  IN  [i \in 1..Len(pushed) |-> pushed[i].name]

\* inputSchema of a generated tool
InputSchema(parameters) ==
  [type |-> "object", properties |-> Properties(parameters),
   required |-> Some(Required(parameters)), additionalProperties |-> Some(TRUE)]

\* createProcessorTool(processor)
createProcessorTool(processor) ==
  [name |-> processorToToolName(processor.namespace, processor.path),
   description |-> processor.description \o " (" \o Text(processor.namespace)
                     \o "/" \o Text(processor.path) \o ")",
   inputSchema |-> InputSchema(processor.parameters)]

\* const baseTools = [{ name: "modx_get_session_info", description: ...,
\* inputSchema: { type: "object", properties: {} } }]; the keys the schema
\* does not have are None.
baseTools ==
  <<[name |-> <<"m", "o", "d", "x", "_", "g", "e", "t", "_", "s", "e", "s", "s",
                "i", "o", "n", "_", "i", "n", "f", "o">>,
     description |-> "Get information about current MODX session",
     inputSchema |-> [type |-> "object", properties |-> <<>>,
                      required |-> None, additionalProperties |-> None]]>>

\* A slip: the tools are generated from the last descriptor to the first.
DynamicToolsReversed(a) ==
  LET n == Len(ProcessorArray(a))
  IN  [i \in 1..n |-> createProcessorTool(ProcessorArray(a)[n + 1 - i])]

\* processorsCache.map(processor => createProcessorTool(processor))
DynamicTools(a) ==
  [i \in 1..Len(ProcessorArray(a)) |-> createProcessorTool(ProcessorArray(a)[i])]

\* A slip: the dynamic tools are returned without the base tools.
AllToolsDynamicOnly(a) == DynamicTools(a)

\* [...baseTools, ...dynamicTools]
AllTools(a) == baseTools \o DynamicTools(a)

\* toolName.startsWith('modx_')
HasModxPrefix(toolName) ==
  Len(toolName) >= 5 /\ SubSeq(toolName, 1, 5) = <<"m", "o", "d", "x", "_">>

\* The processors of the cache whose tool name is toolName, by position;
\* cache is None (null) or Some(name of an array).
Matches(toolName, cache) ==
  IF cache = None THEN {}
  ELSE {i \in 1..Len(ProcessorArray(cache[1])) :
          processorToToolName(ProcessorArray(cache[1])[i].namespace,
                              ProcessorArray(cache[1])[i].path) = toolName}

\* A slip: a name that no processor has is split at its first underscore
\* after the prefix instead of being refused.
toolNameToProcessorParsed(toolName, cache) ==
  IF ~HasModxPrefix(toolName) THEN None
  ELSE IF Matches(toolName, cache) = {}
  THEN Some([namespace |-> SubSeq(toolName, 6, Len(toolName)), action |-> <<>>])
  ELSE LET i == CHOOSE m \in Matches(toolName, cache) :
                  \A k \in Matches(toolName, cache) : m <= k
           processor == ProcessorArray(cache[1])[i]
       IN  Some([namespace |-> processor.namespace, action |-> processor.path])

\* toolNameToProcessor(toolName): null without the prefix; otherwise the
\* first processor of the cache whose tool name is toolName, null when
\* there is none or the cache is null.
toolNameToProcessor(toolName, cache) ==
  IF ~HasModxPrefix(toolName) \/ Matches(toolName, cache) = {} THEN None
  ELSE LET i == CHOOSE m \in Matches(toolName, cache) :
                  \A k \in Matches(toolName, cache) : m <= k
           processor == ProcessorArray(cache[1])[i]
       IN  Some([namespace |-> processor.namespace, action |-> processor.path])

\* A slip: a populated cache is served whatever the session says.
OnlyBaseToolsUnlessCached == ~getSessionInfo.isAuthenticated /\ processorsCache = None

\* if (!sessionInfo.isAuthenticated) return baseTools
OnlyBaseTools == ~getSessionInfo.isAuthenticated

\* A slip: the catch block of getAllTools raises the error again.
ToolsOnErrorRethrown ==
  [kind |-> "threw", err |-> "Error loading processors", res |-> None]

\* catch (error) { return baseTools }
ToolsOnError == [kind |-> "returned", err |-> NoError, res |-> Some(baseTools)]

ServiceUnchanged ==
  UNCHANGED <<baseUrl, isAuthenticated, sessionInfo, processorCache, authToken,
              inflight, lastLogin, expired, cookieJar, handed>>

\* The part of the tools/list handler (getAllTools) that runs when the
\* request arrives: it returns at once when the session is not
\* authenticated or the cache of the dispatcher is populated, and calls
\* getProcessors() otherwise, which returns its own cache, raises, or sends
\* a request the handler then awaits.
ListToolsCall ==
  IF OnlyBaseTools
  THEN /\ lastEvt' = Event("tools/list", "call", "returned", None, NoError,
                           Some(baseTools))
       /\ ServiceUnchanged
       /\ UNCHANGED processorsCache
  ELSE IF processorsCache # None
  THEN /\ lastEvt' = Event("tools/list", "call", "returned", None, NoError,
                           Some(AllTools(processorsCache[1])))
       /\ ServiceUnchanged
       /\ UNCHANGED processorsCache
  ELSE LET kind == GetProcessorsStartKind(FALSE)
       IN  /\ GetProcessorsStart(FALSE, "tools/list")
           /\ CASE kind = "returned" ->
                     /\ processorsCache' = Some(processorCache[1].processors)
                     /\ lastEvt' = Event("tools/list", "call", "returned", None,
                                         NoError, Some(AllTools(processorsCache'[1])))
                [] kind = "threw" ->
                     /\ UNCHANGED processorsCache
                     /\ lastEvt' = Event("tools/list", "call", ToolsOnError.kind,
                                         None, ToolsOnError.err, ToolsOnError.res)
                [] OTHER ->
                     /\ UNCHANGED processorsCache
                     /\ lastEvt' = Event("tools/list", "call", "sent", None,
                                         NoError, Some(Form(authToken)))

\* A slip: the catch block leaves an empty list in the cache.
ListToolsResponseCachingFailure(req, resp) ==
  LET o == GetProcessorsOutcome(resp)
  IN  /\ req.caller = "tools/list"
      /\ GetProcessorsReceive(req, resp)
      /\ IF o.kind = "returned"
         THEN /\ processorsCache' = Some(o.res[1].processors)
              /\ lastEvt' = Event("tools/list", "response", "returned", Some(resp),
                                  NoError, Some(AllTools(processorsCache'[1])))
         ELSE /\ processorsCache' = Some("[]")
              /\ lastEvt' = Event("tools/list", "response", ToolsOnError.kind,
                                  Some(resp), ToolsOnError.err, ToolsOnError.res)

\* The part of the tools/list handler that runs when the getProcessors it
\* awaits completes; arg of the event is the response received.
ListToolsResponse(req, resp) ==
  LET o == GetProcessorsOutcome(resp)
  IN  /\ req.caller = "tools/list"
      /\ GetProcessorsReceive(req, resp)
      /\ IF o.kind = "returned"
         THEN /\ processorsCache' = Some(o.res[1].processors)
              /\ lastEvt' = Event("tools/list", "response", "returned", Some(resp),
                                  NoError, Some(AllTools(processorsCache'[1])))
         ELSE /\ UNCHANGED processorsCache
              /\ lastEvt' = Event("tools/list", "response", ToolsOnError.kind,
                                  Some(resp), ToolsOnError.err, ToolsOnError.res)

\* "modx_get_session_info"
SessionInfoToolName == baseTools[1].name

\* JSON.stringify of a result of callProcessor: the keys whose value is
\* undefined are left out.
JsonStringify(result) ==
  [k \in {f \in DOMAIN result : result[f] # Undef} |-> result[k]]

\* JSON.stringify of a session snapshot: the keys the snapshot has.
SessionJson(snapshot) ==
  [k \in {"isAuthenticated"}
           \cup {f \in DOMAIN snapshot \ {"isAuthenticated"} : snapshot[f] # None} |->
     IF k = "isAuthenticated" THEN snapshot[k] ELSE snapshot[k][1]]

\* A tools/call request: the name of the tool and the arguments, None when
\* the request has none.
ToolCall(name, arguments) == [name |-> name, arguments |-> arguments]

\* { content: [{ type: "text", text }] }
ToolResult(text) == [isError |-> FALSE, text |-> text]

\* A slip: the failure payload is returned without isError.
ToolErrorUnmarked(message, call) ==
  [isError |-> FALSE,
   text |-> IF call.arguments = None
            THEN [success |-> FALSE, error |-> message, tool |-> call.name]
            ELSE [success |-> FALSE, error |-> message, tool |-> call.name,
                  arguments |-> call.arguments[1]]]

\* The catch block of the handler: { content: [{ type: "text", text:
\* JSON.stringify({ success: false, error, tool: name, arguments: args }) }],
\* isError: true }; arguments that are undefined are left out of the JSON.
ToolError(message, call) ==
  [isError |-> TRUE,
   text |-> IF call.arguments = None
            THEN [success |-> FALSE, error |-> message, tool |-> call.name]
            ELSE [success |-> FALSE, error |-> message, tool |-> call.name,
                  arguments |-> call.arguments[1]]]

\* A slip: the session information is given to an authenticated session only.
SessionInfoToolGuarded(call) ==
  IF isAuthenticated
  THEN ToolResult(SessionJson(getSessionInfo))
  ELSE ToolError("Not authenticated. Please login first.", call)

\* The branch of the handler for the session information tool:
\* JSON.stringify(modxProxy.getSessionInfo(), null, 2) as the text.
SessionInfoTool(call) ==
  ToolResult(SessionJson(getSessionInfo))

\* throw new Error(`Unknown tool: ${name}`)
UnknownTool(name) == "Unknown tool: " \o Text(name)

\* A slip: the arguments of the request are not forwarded.
ForwardedWithoutArguments(processorInfo, call) ==
  Invocation(Text(processorInfo.namespace), Text(processorInfo.action), <<>>)

\* callProcessor(processorInfo.namespace, processorInfo.action, data || {})
Forwarded(processorInfo, call) ==
  Invocation(Text(processorInfo.namespace), Text(processorInfo.action),
             IF call.arguments = None THEN <<>> ELSE call.arguments[1])

\* The callProcessor a tools/call awaits, with the locals of the handler
\* (name and args) and the arguments callProcessor was called with.
ToolRequest(call, inv) ==
  [op |-> "callProcessor", caller |-> "tools/call", connectorUrl |-> None,
   call |-> call, inv |-> inv]

\* The part of the tools/call handler that runs when the request arrives:
\* the session-info tool is answered at once; a name with the prefix that
\* resolves in the cache is forwarded to callProcessor, which raises 'Not
\* authenticated' or sends a request the handler awaits; every other name
\* raises 'Unknown tool'; what is raised is caught and answered as an error.
ToolCallCall(name, arguments) ==
  LET call == ToolCall(name, arguments)
      processorInfo == toolNameToProcessor(name, processorsCache)
  IN  /\ IF name = SessionInfoToolName
         THEN /\ lastEvt' = Event("tools/call", "call", "returned", Some(call), NoError,
                                  Some(SessionInfoTool(call)))
              /\ ServiceUnchanged
         ELSE IF HasModxPrefix(name) /\ processorInfo # None
         THEN LET inv == Forwarded(processorInfo[1], call)
              IN  /\ CallProcessorStart(ToolRequest(call, inv))
                  /\ lastEvt' =
                       IF CallProcessorRefused
                       THEN Event("tools/call", "call", "returned", Some(call), NoError,
                                  Some(ToolError("Not authenticated. Please login first.",
                                                 call)))
                       ELSE Event("tools/call", "call", "sent", Some(call), NoError,
                                  Some(CallProcessorForm(inv.namespace, inv.action,
                                                         authToken, inv.data)))
         ELSE /\ lastEvt' = Event("tools/call", "call", "returned", Some(call), NoError,
                                  Some(ToolError(UnknownTool(name), call)))
              /\ ServiceUnchanged
      /\ UNCHANGED processorsCache

\* The part of the tools/call handler that runs when the callProcessor it
\* awaits completes; arg of the event is the request and the response.
ToolCallResponse(req, resp) ==
  LET o == CallProcessorOutcome(resp)
  IN  /\ req.caller = "tools/call"
      /\ CallProcessorReceive(req, resp)
      /\ lastEvt' = Event("tools/call", "response", "returned",
                          Some([name |-> req.call.name,
                                arguments |-> req.call.arguments,
                                response |-> resp]),
                          NoError,
                          Some(IF o.kind = "returned"
                               THEN ToolResult(JsonStringify(o.res[1]))
                               ELSE ToolError(o.err, req.call)))
      /\ UNCHANGED processorsCache

(* --------------------------------------------------------- specification *)

\* Every operation, called at any time the bound on calls in flight allows,
\* with login's baseUrl drawn from args, callProcessor's arguments from
\* invocations, and the responses of the remote system from logins,
\* discoveries and calls.
NextOf(args, logins, discoveries, calls, invocations) ==
  \/ \E arg \in args : LoginCall(arg)
  \/ \E req \in BagToSet(inflight) : \E resp \in logins : LoginResponse(req, resp)
  \/ \E refresh \in BOOLEAN : GetProcessorsCall(refresh)
  \/ \E req \in BagToSet(inflight) : \E resp \in discoveries :
       GetProcessorsResponse(req, resp)
  \/ \E inv \in invocations : CallProcessorCall(inv)
  \/ \E req \in BagToSet(inflight) : \E resp \in calls : CallProcessorResponse(req, resp)
  \/ LogoutCall
  \/ \E req \in BagToSet(inflight) : \E resp \in calls : LogoutResponse(req, resp)
  \/ GetSessionInfo

\* One call of an operation with no data.
PlainInvocations == {Invocation("core", "resource/getlist", <<>>)}

Next ==
  NextOf(PlainBaseUrlArgs, LoginResponses, DiscoveryResponses, CallResponses,
         PlainInvocations)

Spec == Init /\ [][Next]_vars

\* The same service with every baseUrl argument of login, against a remote
\* system that answers each kind of request in one of a few ways.
UrlLoginResponses ==
  {Response("json", 200, Body(JTrue, Absent, "{token:T1}", Absent, Absent, Absent)),
   Response("json", 200, Body(JFalse, Absent, Absent, Absent, Absent, Absent)),
   Response("network", 0, NoBody)}

UrlDiscoveryResponses ==
  {Response("json", 200, Body(JTrue, Absent, "{PL1}", Absent, Absent, Absent)),
   Response("status", 401, NoBody)}

UrlCallResponses ==
  {Response("json", 200, Body(JTrue, Absent, Absent, Absent, Absent, Absent)),
   Response("status", 401, NoBody)}

NextUrl ==
  NextOf(BaseUrlArgs, UrlLoginResponses, UrlDiscoveryResponses, UrlCallResponses,
         PlainInvocations)

SpecUrl == Init /\ [][NextUrl]_vars

\* The same service called with operations of two namespaces and with data
\* whose keys are new, or are the names of the fixed form fields.
Namespaces == {"core", "shop"}

Actions == {"resource/getlist", "security/logout"}

DataArgs ==
  {<<>>, [limit |-> "10"], [filter |-> "{o}"], [action |-> "other/path"],
   [format |-> "xml"], [HTTP_MODAUTH |-> "forged"],
   [limit |-> "10", action |-> "other/path"]}

Invocations ==
  {Invocation(ns, a, d) : ns \in Namespaces, a \in Actions, d \in DataArgs}

NextForm ==
  NextOf(PlainBaseUrlArgs, UrlLoginResponses, UrlDiscoveryResponses,
         UrlCallResponses, Invocations)

SpecForm == Init /\ [][NextForm]_vars

\* The same service against a remote system whose accepted logins carry
\* one of two tokens or none, with calls whose data may name HTTP_MODAUTH.
TokenLoginResponses ==
  {Response("json", 200, Body(JTrue, Absent, o, Absent, Absent, Absent)) :
     o \in LoginObjects \cup {Absent}}
    \cup {Response("json", 200, Body(JFalse, Absent, Absent, Absent, Absent, Absent))}

TokenInvocations ==
  {Invocation("core", "resource/getlist", d) : d \in {<<>>, [HTTP_MODAUTH |-> "forged"]}}

NextToken ==
  NextOf(PlainBaseUrlArgs, TokenLoginResponses, UrlDiscoveryResponses,
         UrlCallResponses, TokenInvocations)

SpecToken == Init /\ [][NextToken]_vars

\* The same service against a remote system that sets a session cookie when
\* it accepts a login, and that may fail a call in each way a call fails.
CookieLoginResponses ==
  {WithCookie(Response("json", 200,
                       Body(JTrue, Absent, "{token:T1}", Absent, Absent, Absent))),
   Response("json", 200, Body(JFalse, Absent, Absent, Absent, Absent, Absent)),
   Response("network", 0, NoBody)}

CookieCallResponses ==
  UrlCallResponses
    \cup {Response("status", 500, NoBody), WithCookie(Response("status", 500, NoBody)),
          Response("network", 0, NoBody)}

NextCookie ==
  NextOf(PlainBaseUrlArgs, CookieLoginResponses, UrlDiscoveryResponses,
         CookieCallResponses, PlainInvocations)

SpecCookie == Init /\ [][NextCookie]_vars

\* callProcessor's handling of one response, as a function of the response:
\* the response is drawn first and the try and catch blocks are then applied.
ResultBodies ==
  {Body(sc, Absent, o, d, r, Absent) :
     sc \in {Absent, JTrue, JFalse, Null, "0"}, o \in {Absent, Null, "{o}"},
     d \in {Absent, Null, EmptyStr, "{d}"}, r \in {Absent, "[r]"}}

ResultResponses ==
  {Response("json", 200, b) : b \in ResultBodies}
    \cup {Response("text", 200, NoBody), Response("jsonnull", 200, NoBody)}

InitResult ==
  /\ baseUrl = DefaultBaseUrl
  /\ isAuthenticated = TRUE
  /\ sessionInfo = [EmptySession EXCEPT !.isAuthenticated = TRUE]
  /\ processorCache = None
  /\ authToken = EmptyStr
  /\ inflight = EmptyBag
  /\ \E resp \in ResultResponses :
       lastEvt = Event("callProcessor", "response", "received", Some(resp), NoError, None)
  /\ lastLogin = None
  /\ expired = FALSE
  /\ cookieJar = FALSE
  /\ handed = None
  /\ processorsCache = None

ResultOfResponse ==
  LET resp == lastEvt.arg[1]
      t == CallProcessorTry(resp)
  IN  /\ lastEvt.kind = "received"
      /\ lastEvt' = IF t.how = "ok"
                    THEN Event("callProcessor", "response", "returned", Some(resp),
                               NoError, t.res)
                    ELSE Event("callProcessor", "response", "threw", Some(resp),
                               CallProcessorError(resp), None)
      /\ UNCHANGED <<baseUrl, isAuthenticated, sessionInfo, processorCache, authToken,
                     inflight, lastLogin, expired, cookieJar, handed, processorsCache>>

NextResult == ResultOfResponse

SpecResult == InitResult /\ [][NextResult]_vars

\* The server (index.ts): main awaits the login of initializeServer, made
\* once when the environment has credentials, before it connects; from then
\* on tools/list and tools/call requests are handled as they arrive.
ServerDiscoveryResponses ==
  FailureResponses
    \cup {Response("json", 200, Body(JTrue, Absent, o, Absent, Absent, Absent)) :
            o \in {"{PL1}", "{PL2}", "{PL3}", "{}"}}
    \cup {Response("json", 200, Body(JFalse, "denied", Absent, Absent, Absent, Absent))}

\* The names of the tools clients call: the session-info tool, the tools
\* of P1 and of P2, a name tests of the repository call, a name with the
\* prefix that no operation has, and a name without the prefix.
ToolNames ==
  {SessionInfoToolName,
   processorToToolName(P1.namespace, P1.path),
   processorToToolName(P2.namespace, P2.path),
   <<"m", "o", "d", "x", "_", "l", "o", "g", "i", "n">>,
   <<"m", "o", "d", "x", "_", "n", "o">>,
   <<"p", "i", "n", "g">>}

\* The arguments of a tools/call: none, or an object.
ToolArguments ==
  {None, Some([limit |-> "3"]),
   Some([username |-> "admin", password |-> "secret", baseUrl |-> "h"])}

ServerCallResponses ==
  UrlCallResponses
    \cup {Response("json", 200, Body(JFalse, "denied", Absent, Absent, Absent, Absent)),
          Response("json", 200, Body(JTrue, Absent, Absent, Absent, "[r]", Absent)),
          Response("status", 500, NoBody), Response("network", 0, NoBody)}

\* initializeServer has not run yet.
Starting == lastEvt.op = "constructor"

\* A slip: main connects the transport without awaiting initializeServer.
ServingAtOnce == TRUE

\* server.connect has run: no login is awaited.
Serving == \A req \in BagToSet(inflight) : req.op # "login"

\* The server, with the responses of the remote system drawn from logins,
\* discoveries and calls and the tools/call requests from toolCalls.
NextServerOf(logins, discoveries, calls, toolCalls) ==
  \/ \E arg \in PlainBaseUrlArgs : Starting /\ LoginCall(arg)
  \/ \E req \in BagToSet(inflight) : \E resp \in logins : LoginResponse(req, resp)
  \/ Serving /\ ListToolsCall
  \/ \E req \in BagToSet(inflight) : \E resp \in discoveries :
       ListToolsResponse(req, resp)
  \/ \E call \in toolCalls : Serving /\ ToolCallCall(call.name, call.arguments)
  \/ \E req \in BagToSet(inflight) : \E resp \in calls : ToolCallResponse(req, resp)

\* Every answer to a login and to a discovery, and a few tools/call requests.
PlainToolCalls ==
  {ToolCall(SessionInfoToolName, None),
   ToolCall(processorToToolName(P1.namespace, P1.path), Some([limit |-> "3"])),
   ToolCall(<<"p", "i", "n", "g">>, None)}

NextServer ==
  NextServerOf(LoginResponses, ServerDiscoveryResponses, UrlCallResponses,
               PlainToolCalls)

SpecServer == Init /\ [][NextServer]_vars

\* Every tools/call request and every answer to its call, with a few
\* answers to the login and to the discovery.
ToolCalls == {ToolCall(n, a) : n \in ToolNames, a \in ToolArguments}

CallDiscoveryResponses ==
  {Response("json", 200, Body(JTrue, Absent, o, Absent, Absent, Absent)) :
     o \in {"{PL2}", "{PL3}"}}
    \cup {Response("status", 401, NoBody)}

NextCall ==
  NextServerOf(UrlLoginResponses, CallDiscoveryResponses, ServerCallResponses,
               ToolCalls)

SpecCall == Init /\ [][NextCall]_vars

\* The service driven through every one of its session states (never logged
\* in, authenticated, expired by a 401, logged out) while requests for the
\* session information tool arrive.
SessionToolCalls ==
  {ToolCall(SessionInfoToolName, a) : a \in {None, Some([limit |-> "3"])}}

NextSession ==
  \/ \E arg \in PlainBaseUrlArgs : LoginCall(arg)
  \/ \E req \in BagToSet(inflight) : \E resp \in UrlLoginResponses :
       LoginResponse(req, resp)
  \/ \E inv \in PlainInvocations : CallProcessorCall(inv)
  \/ \E req \in BagToSet(inflight) : \E resp \in UrlCallResponses :
       CallProcessorResponse(req, resp)
  \/ LogoutCall
  \/ \E req \in BagToSet(inflight) : \E resp \in UrlCallResponses :
       LogoutResponse(req, resp)
  \/ \E call \in SessionToolCalls : ToolCallCall(call.name, call.arguments)

SpecSession == Init /\ [][NextSession]_vars

\* processorToToolName as a function of its arguments: the arguments are
\* drawn first and the function is then applied.
NameChars == {"a", "A", "/", "_", "7"}

MaxNameLen == 2

NameParts ==
  UNION {[1..n -> NameChars] : n \in 1..MaxNameLen}
    \cup {<<"C", "o", "r", "e">>, <<"c", "o", "r", "e">>,
          <<"R", "e", "s", "o", "u", "r", "c", "e", "/", "G", "e", "t", "L", "i", "s", "t">>,
          <<"r", "e", "s", "o", "u", "r", "c", "e", "_", "g", "e", "t", "l", "i", "s", "t">>}

PathParts ==
  {<<"r", "/", "g">>, <<"r", "_", "g">>, <<"R", "-", "G">>, <<"7">>,
   <<"R", "e", "s", "o", "u", "r", "c", "e", "/", "G", "e", "t", "L", "i", "s", "t">>,
   <<"r", "e", "s", "o", "u", "r", "c", "e", "_", "g", "e", "t", "l", "i", "s", "t">>}

NameInputs ==
  {[namespace |-> ns, path |-> pa] : ns \in NameParts, pa \in PathParts}

InitName ==
  /\ baseUrl = DefaultBaseUrl
  /\ isAuthenticated = FALSE
  /\ sessionInfo = EmptySession
  /\ processorCache = None
  /\ authToken = EmptyStr
  /\ inflight = EmptyBag
  /\ \E in \in NameInputs :
       lastEvt = Event("processorToToolName", "call", "received", Some(in), NoError, None)
  /\ lastLogin = None
  /\ expired = FALSE
  /\ cookieJar = FALSE
  /\ handed = None
  /\ processorsCache = None

NameOfInput ==
  /\ lastEvt.op = "processorToToolName"
  /\ lastEvt.kind = "received"
  /\ lastEvt' = Event("processorToToolName", "call", "returned", lastEvt.arg, NoError,
                      Some(processorToToolName(lastEvt.arg[1].namespace,
                                               lastEvt.arg[1].path)))
  /\ ServiceUnchanged
  /\ UNCHANGED processorsCache

NextName == NameOfInput

SpecName == InitName /\ [][NextName]_vars

\* createProcessorTool as a function of the parameters of a processor: a
\* processor is drawn first and the function is then applied. One parameter
\* is drawn with every name, type, flag, description and default; lists of
\* parameters, in which a name may occur twice, with every name and flag.
ParamNames ==
  {<<>>, <<"_", "x">>, <<"_">>, PermissionCheck, <<"a">>, <<"q", "_">>, <<"I", "d">>}

ParamTypes ==
  {<<>>, <<"i", "n", "t">>, <<"I", "N", "T">>, <<"i", "n", "t", "e", "g", "e", "r">>,
   <<"I", "n", "t", "e", "g", "e", "r">>, <<"b", "o", "o", "l">>,
   <<"B", "o", "o", "l", "e", "a", "n">>, <<"b", "o", "o", "l", "e", "a", "n">>,
   <<"s", "t", "r", "i", "n", "g">>, <<"T", "e", "x", "t">>, <<"t", "e", "x", "t">>,
   <<"a", "r", "r", "a", "y">>, <<"A", "R", "R", "A", "Y">>,
   <<"o", "b", "j", "e", "c", "t">>, <<"O", "b", "j", "e", "c", "t">>,
   <<"m", "i", "x", "e", "d">>, <<"f", "l", "o", "a", "t">>,
   <<"i", "n", "t", "s">>, <<"n", "u", "m", "b", "e", "r">>}

ParamRequireds == {JTrue, JFalse, "1", Absent}

SingleParams ==
  {Param(n, t, r, d, v) :
     n \in {<<"a">>, <<"_", "x">>}, t \in ParamTypes, r \in ParamRequireds,
     d \in {EmptyStr, "d"}, v \in {Undef, EmptyStr, "5"}}

ListParams ==
  {Param(n, <<"i", "n", "t">>, r, EmptyStr, Undef) :
     n \in ParamNames, r \in ParamRequireds}

MaxParams == 2

ParameterLists ==
  {<<p>> : p \in SingleParams}
    \cup UNION {[1..n -> ListParams] : n \in 0..MaxParams}

SchemaInputs ==
  {[namespace |-> P1.namespace, path |-> P1.path, description |-> P1.description,
    parameters |-> ps] : ps \in ParameterLists}

InitSchema ==
  /\ baseUrl = DefaultBaseUrl
  /\ isAuthenticated = FALSE
  /\ sessionInfo = EmptySession
  /\ processorCache = None
  /\ authToken = EmptyStr
  /\ inflight = EmptyBag
  /\ \E in \in SchemaInputs :
       lastEvt = Event("createProcessorTool", "call", "received", Some(in), NoError, None)
  /\ lastLogin = None
  /\ expired = FALSE
  /\ cookieJar = FALSE
  /\ handed = None
  /\ processorsCache = None

ToolOfInput ==
  /\ lastEvt.op = "createProcessorTool"
  /\ lastEvt.kind = "received"
  /\ lastEvt' = Event("createProcessorTool", "call", "returned", lastEvt.arg, NoError,
                      Some(createProcessorTool(lastEvt.arg[1])))
  /\ ServiceUnchanged
  /\ UNCHANGED processorsCache

NextSchema == ToolOfInput

SpecSchema == InitSchema /\ [][NextSchema]_vars

(* ---------------------------------------------------------------- claims *)

NotAuthenticated == "Not authenticated. Please login first."

SessionExpired == "Session expired. Please login again."

\* The step just taken is the named phase of the named operation.
Did(op, phase) == lastEvt.op = op /\ lastEvt.phase = phase

\* C1: once a callProcessor has received a 401, and until a login succeeds,
\* the session info says not authenticated and every callProcessor called
\* raises 'Not authenticated' instead of sending a request.
C1_ExpiredSessionRefusesCalls ==
  expired =>
    /\ ~getSessionInfo.isAuthenticated
    /\ ~isAuthenticated
    /\ Did("callProcessor", "call") =>
         lastEvt.kind = "threw" /\ lastEvt.err = NotAuthenticated

C1_Witness ==
  /\ expired
  /\ Did("callProcessor", "call")
  /\ lastEvt.kind = "threw"
  /\ lastLogin # None

\* C2: when a callProcessor or a getProcessors has just received a 401 or a
\* 403, authToken is empty and the session info has no user, loginTime or
\* lastActivity left.
C2_ExpiryClearsSessionFields ==
  (lastEvt.phase = "response" /\ lastEvt.kind = "threw" /\ lastEvt.err = SessionExpired) =>
    /\ authToken = EmptyStr
    /\ getSessionInfo.user = None
    /\ getSessionInfo.loginTime = None
    /\ getSessionInfo.lastActivity = None

\* What the response body of a login carries: the token of its object (the
\* empty string without one) and its user payload.
TokenCarried(body) ==
  IF body.object \in LoginObjects THEN TokenOf(body.object) ELSE EmptyStr

UserCarried(body) == IF body.object # Absent THEN body.object ELSE Get(body.data)

\* C3: in every state where the session is authenticated (by the flag or by
\* the session info), authToken and the session's user are the ones carried
\* by the response of the login that succeeded last.
C3_AuthenticatedSessionIsLastLogin ==
  (isAuthenticated \/ getSessionInfo.isAuthenticated) =>
    /\ lastLogin # None
    /\ authToken = TokenCarried(lastLogin[1])
    /\ getSessionInfo.user = Some(UserCarried(lastLogin[1]))

\* A login has just succeeded with token T2 while another login is awaited.
C3_Witness ==
  /\ isAuthenticated
  /\ Did("login", "response")
  /\ authToken = "T2"
  /\ \E req \in BagToSet(inflight) : req.op = "login"

\* C4: when login has just returned a failure, the session info says not
\* authenticated and authToken is empty.
C4_FailedLoginLeavesNoSession ==
  (Did("login", "response") /\ ~lastEvt.res[1].success) =>
    /\ ~getSessionInfo.isAuthenticated
    /\ authToken = EmptyStr

\* C5: when login has just returned a success, getSessionInfo gives
\* isAuthenticated true and a baseUrl that is not empty.
C5_LoginGivesBaseUrl ==
  (Did("login", "response") /\ lastEvt.res[1].success) =>
    /\ getSessionInfo.isAuthenticated
    /\ getSessionInfo.baseUrl # None
    /\ getSessionInfo.baseUrl # Some(<<>>)

\* C6: login never raises; when its HTTP call completes, in whatever way, it
\* returns a result tagged success true or false, and a failure carries a
\* message.
C6_LoginAlwaysReturnsResult ==
  lastEvt.op = "login" =>
    /\ lastEvt.kind # "threw"
    /\ lastEvt.phase = "response" =>
         /\ lastEvt.kind = "returned"
         /\ lastEvt.res # None
         /\ lastEvt.res[1].success \in BOOLEAN
         /\ ~lastEvt.res[1].success => Truthy(lastEvt.res[1].message)

C6_Witness ==
  /\ Did("login", "response")
  /\ ~lastEvt.res[1].success
  /\ lastEvt.res[1].message = "Authentication failed"

\* C7: a getProcessors called while the session is not authenticated raises
\* 'Not authenticated', whatever refresh is and whatever the cache holds.
C7_UnauthenticatedDiscoveryRefused ==
  (Did("getProcessors", "call") /\ ~isAuthenticated) =>
    lastEvt.kind = "threw" /\ lastEvt.err = NotAuthenticated

\* C8: while authenticated, a getProcessors without refresh that follows a
\* getProcessors that returned a list sends nothing and returns that list; a
\* getProcessors without refresh sends a request only when there is no
\* cache, and one with refresh always sends one.
C8_CacheHitUnlessRefresh ==
  [][(isAuthenticated /\ lastEvt'.op = "getProcessors" /\ lastEvt'.phase = "call") =>
       /\ (lastEvt.op = "getProcessors" /\ lastEvt.kind = "returned"
             /\ lastEvt'.arg = Some(FALSE)) =>
            /\ lastEvt'.kind = "returned"
            /\ lastEvt'.res = lastEvt.res
            /\ inflight' = inflight
       /\ (lastEvt'.arg = Some(FALSE) /\ processorCache # None) =>
            /\ lastEvt'.kind = "returned"
            /\ lastEvt'.res = processorCache
            /\ inflight' = inflight
       /\ (lastEvt'.arg = Some(TRUE) \/ processorCache = None) =>
            /\ lastEvt'.kind = "sent"
            /\ BagCardinality(inflight') = BagCardinality(inflight) + 1]_vars

\* A refresh sent while a cache exists.
C8_Witness ==
  /\ isAuthenticated
  /\ Did("getProcessors", "call")
  /\ lastEvt.arg = Some(TRUE)
  /\ lastEvt.kind = "sent"
  /\ processorCache # None

\* The lists a discovery response can be turned into.
ProcessorLists == {ProcessorList(o) : o \in ListObjects}

\* C9: the cache is empty at startup and changes only when a getProcessors
\* returns the list of a successful discovery, which then is the whole
\* cache; no other step (a failed discovery, login, callProcessor, logout)
\* changes it.
C9_CacheWrittenOnlyByDiscovery ==
  /\ processorCache = None
  /\ [][processorCache' # processorCache =>
          /\ lastEvt'.op = "getProcessors"
          /\ lastEvt'.phase = "response"
          /\ lastEvt'.kind = "returned"
          /\ processorCache' = lastEvt'.res
          /\ processorCache'[1] \in ProcessorLists]_vars

\* A refresh has failed and the cache is still there.
C9_Witness ==
  /\ Did("getProcessors", "response")
  /\ lastEvt.kind = "threw"
  /\ processorCache = Some(ProcessorList("{PL1}"))

\* C10: for a response whose body is a JSON object, callProcessor returns a
\* result whose success is the body's success when the body has one, and
\* true when it has none.
C10_SuccessIsRemoteSuccess ==
  (Did("callProcessor", "response") /\ lastEvt.kind # "received"
     /\ lastEvt.arg # None /\ lastEvt.arg[1].kind = "json") =>
    /\ lastEvt.kind = "returned"
    /\ lastEvt.res[1].success =
         IF lastEvt.arg[1].body.success # Absent
         THEN lastEvt.arg[1].body.success
         ELSE JTrue

\* The body says success: null and so does the result.
C10_Witness ==
  /\ Did("callProcessor", "response")
  /\ lastEvt.kind = "returned"
  /\ lastEvt.arg # None
  /\ lastEvt.arg[1].body.success = Null
  /\ lastEvt.res[1].success = Null

\* The first populated of the body's data, object and results.
FirstPopulated(body) ==
  IF Truthy(Get(body.data)) THEN body.data
  ELSE IF Truthy(Get(body.object)) THEN body.object
  ELSE body.results

\* C11: for a response whose body is a JSON object with one of data, object
\* and results populated, the data of the result callProcessor returns is
\* the first populated of the three, also when the body's data is there and
\* is null or empty.
C11_DataIsFirstPopulated ==
  (Did("callProcessor", "response") /\ lastEvt.kind = "returned"
     /\ lastEvt.arg # None /\ lastEvt.arg[1].kind = "json"
     /\ \E k \in {"data", "object", "results"} : Truthy(Get(lastEvt.arg[1].body[k]))) =>
    lastEvt.res[1].data = FirstPopulated(lastEvt.arg[1].body)

\* A response whose body is a string that is not JSON.
NonJson == Response("text", 200, NoBody)

\* C12: a response body that is not JSON makes callProcessor return a result
\* with success true that carries the raw body and leave the session as it
\* was, makes login return a failure result, and makes getProcessors raise
\* an error.
C12_NonJsonBody ==
  [][\A req \in BagToSet(inflight) :
       /\ CallProcessorResponse(req, NonJson) =>
            /\ lastEvt'.kind = "returned"
            /\ lastEvt'.res[1].success = JTrue
            /\ lastEvt'.res[1].data = "<text>"
            /\ UNCHANGED <<isAuthenticated, authToken, sessionInfo>>
       /\ LoginResponse(req, NonJson) =>
            /\ lastEvt'.kind = "returned"
            /\ lastEvt'.res[1].success = FALSE
       /\ GetProcessorsResponse(req, NonJson) =>
            /\ lastEvt'.kind = "threw"
            /\ lastEvt'.err = "Failed to get processors: Invalid JSON response from MODX component"
    ]_vars

\* callProcessor has returned the raw body of an authenticated session.
C12_Witness ==
  /\ Did("callProcessor", "response")
  /\ lastEvt.kind = "returned"
  /\ lastEvt.res[1].raw = JTrue
  /\ lastEvt.res[1].data = "<text>"
  /\ isAuthenticated

\* C13: the form callProcessor sends has every key of the caller's data,
\* with the caller's value also where the key is action, format or
\* HTTP_MODAUTH, and an authenticated call is sent whatever its data.
C13_CallerDataWins ==
  Did("callProcessor", "call") =>
    /\ isAuthenticated => lastEvt.kind = "sent"
    /\ lastEvt.kind = "sent" =>
         \A k \in DOMAIN lastEvt.arg[1].data :
           /\ k \in DOMAIN lastEvt.res[1]
           /\ lastEvt.res[1][k] = FormValue(lastEvt.arg[1].data[k])

\* A call whose data has the key HTTP_MODAUTH has been sent with the
\* caller's value and not with the token of the session.
C13_Witness ==
  /\ Did("callProcessor", "call")
  /\ lastEvt.kind = "sent"
  /\ "HTTP_MODAUTH" \in DOMAIN lastEvt.arg[1].data
  /\ authToken = "T1"
  /\ lastEvt.res[1].HTTP_MODAUTH = "forged"

\* namespace/path
Qualified(namespace, action) == namespace \o "/" \o action

\* C14: the action field of the form callProcessor(namespace, action, data)
\* sends, when data has no action key, is the path qualified by the
\* namespace, and the same call in another namespace sends another form.
C14_ActionIsNamespaceQualified ==
  (Did("callProcessor", "call") /\ lastEvt.kind = "sent"
     /\ "action" \notin DOMAIN lastEvt.arg[1].data) =>
    LET inv == lastEvt.arg[1]
    IN  /\ lastEvt.res[1].action = Qualified(inv.namespace, inv.action)
        /\ \A ns \in Namespaces \ {inv.namespace} :
             CallProcessorForm(ns, inv.action, authToken, inv.data) # lastEvt.res[1]

\* C15: logout never raises an error, and what it returns has success true,
\* whatever the session was and whatever its remote call got.
C15_LogoutAlwaysSucceeds ==
  lastEvt.op = "logout" =>
    /\ lastEvt.kind # "threw"
    /\ lastEvt.kind = "returned" => lastEvt.res[1].success = TRUE

\* The remote call of a logout has failed and logout has returned.
C15_Witness ==
  /\ Did("logout", "response")
  /\ lastEvt.kind = "returned"
  /\ lastEvt.res[1].message = "Logged out (session cleared locally)"

\* C16: when logout has returned, the session is not authenticated, the
\* token is the empty string and the cookie jar is empty.
C16_LogoutResetsEverything ==
  (lastEvt.op = "logout" /\ lastEvt.kind = "returned") =>
    /\ ~isAuthenticated
    /\ ~getSessionInfo.isAuthenticated
    /\ authToken = EmptyStr
    /\ ~cookieJar

\* C17: the session info a login result carries reads, for as long as the
\* caller holds it, as it read when login returned it.
C17_HandedSessionInfoIsSnapshot ==
  handed # None => sessionInfo = handed[1]

\* C18: a tools/list request handled before any login has succeeded returns
\* exactly one tool; one handled in an authenticated session with N
\* operations in the cache of the dispatcher returns exactly N + 1 tools,
\* and so does one whose discovery has just put N operations in the cache.
C18_OneToolPlusCachedOperations ==
  [][lastEvt'.op = "tools/list" =>
       /\ (lastEvt'.phase = "call" /\ lastLogin = None) =>
            /\ lastEvt'.kind = "returned"
            /\ Len(lastEvt'.res[1]) = 1
       /\ (lastEvt'.phase = "call" /\ getSessionInfo.isAuthenticated
             /\ isAuthenticated /\ processorsCache # None) =>
            /\ lastEvt'.kind = "returned"
            /\ Len(lastEvt'.res[1]) = Len(ProcessorArray(processorsCache[1])) + 1
       /\ (lastEvt'.phase = "response" /\ processorsCache' # processorsCache) =>
            /\ lastEvt'.kind = "returned"
            /\ Len(lastEvt'.res[1]) = Len(ProcessorArray(processorsCache'[1])) + 1
    ]_vars

\* A request handled with two operations in the cache has returned three
\* tools.
C18_Witness ==
  /\ Did("tools/list", "call")
  /\ isAuthenticated
  /\ processorsCache = Some("[p1,p2]")
  /\ Len(lastEvt.res[1]) = 3

\* C19: a tools/list request handled when the session is not authenticated
\* returns the fixed tool alone and sends no HTTP request, also when the
\* cache of the dispatcher is populated.
C19_UnauthenticatedListIsFixedTool ==
  [][(lastEvt'.op = "tools/list" /\ lastEvt'.phase = "call"
        /\ ~getSessionInfo.isAuthenticated) =>
       /\ lastEvt'.kind = "returned"
       /\ lastEvt'.res[1] = baseTools
       /\ inflight' = inflight
    ]_vars

\* The session has expired with operations in the cache and a request has
\* been answered with the fixed tool.
C19_Witness ==
  /\ Did("tools/list", "call")
  /\ ~getSessionInfo.isAuthenticated
  /\ ~isAuthenticated
  /\ lastLogin # None
  /\ processorsCache # None
  /\ Len(ProcessorArray(processorsCache[1])) > 0
  /\ lastEvt.res[1] = baseTools

\* C20: tools/list never raises an error, and a request whose discovery
\* fails, in whatever way, is answered with the fixed tool alone.
C20_ListNeverFails ==
  lastEvt.op = "tools/list" =>
    /\ lastEvt.kind # "threw"
    /\ (lastEvt.phase = "response" /\ GetProcessorsTry(lastEvt.arg[1]).how # "ok") =>
         /\ lastEvt.kind = "returned"
         /\ lastEvt.res[1] = baseTools

\* The discovery of a request got a network error, in a session that is
\* still authenticated, and the request has been answered.
C20_Witness ==
  /\ Did("tools/list", "response")
  /\ lastEvt.arg[1].kind = "network"
  /\ isAuthenticated
  /\ processorsCache = None
  /\ lastEvt.kind = "returned"

\* C21: in every answer to tools/list the fixed session-info tool is first;
\* an answer made from the cache of the dispatcher has, after it, one tool
\* for each descriptor of the cache, the i-th made from the i-th descriptor.
C21_FixedToolThenCacheOrder ==
  (lastEvt.op = "tools/list" /\ lastEvt.kind = "returned") =>
    LET tools == lastEvt.res[1]
    IN  /\ tools[1] = baseTools[1]
        /\ Len(tools) > 1 =>
             /\ processorsCache # None
             /\ Len(tools) = Len(ProcessorArray(processorsCache[1])) + 1
             /\ \A i \in 1..Len(ProcessorArray(processorsCache[1])) :
                  tools[i + 1] = createProcessorTool(ProcessorArray(processorsCache[1])[i])
        /\ (lastEvt.phase = "call" /\ getSessionInfo.isAuthenticated
              /\ processorsCache # None) =>
             Len(tools) = Len(ProcessorArray(processorsCache[1])) + 1

\* Two operations are cached and the answer has their tools in that order.
C21_Witness ==
  /\ lastEvt.op = "tools/list"
  /\ lastEvt.kind = "returned"
  /\ processorsCache = Some("[p1,p2]")
  /\ Len(lastEvt.res[1]) = 3
  /\ lastEvt.res[1][2] = createProcessorTool(P1)
  /\ lastEvt.res[1][3] = createProcessorTool(P2)

\* C22: for every descriptor d of the cache of the dispatcher, whatever else
\* the cache holds, resolving processorToToolName(d.namespace, d.path) gives
\* the namespace and the path of d.
C22_NameRoundTrip ==
  processorsCache # None =>
    \A i \in 1..Len(ProcessorArray(processorsCache[1])) :
      LET d == ProcessorArray(processorsCache[1])[i]
      IN  toolNameToProcessor(processorToToolName(d.namespace, d.path),
                              processorsCache)
            = Some([namespace |-> d.namespace, action |-> d.path])

IsLetter(c) == \E k \in 1..26 : Uppers[k] = c \/ Lowers[k] = c

\* Two names of one length that differ, position by position, only in the
\* case of a letter or in which character that is no letter or digit is used.
Alike(s, t) ==
  /\ Len(s) = Len(t)
  /\ \A i \in 1..Len(s) :
       \/ s[i] = t[i]
       \/ \E k \in 1..26 : {s[i], t[i]} = {Uppers[k], Lowers[k]}
       \/ (~IsLetter(s[i]) /\ s[i] \notin Digits /\ ~IsLetter(t[i]) /\ t[i] \notin Digits)

\* C23: the name processorToToolName gives is modx_, the namespace, _ and
\* the path, made of a-z, 0-9 and _ only, and it is the name of every pair
\* that differs from this one only in letter case or in which character
\* that is no letter or digit is used.
C23_NameIsNormalised ==
  (lastEvt.op = "processorToToolName" /\ lastEvt.kind = "returned") =>
    LET in == lastEvt.arg[1]
        name == lastEvt.res[1]
    IN  /\ Len(name) = 5 + Len(in.namespace) + 1 + Len(in.path)
        /\ \A i \in 1..Len(name) :
             \/ \E k \in 1..26 : Lowers[k] = name[i]
             \/ name[i] \in Digits \cup {"_"}
        /\ \A ns \in {n \in NameParts : Alike(in.namespace, n)} :
             \A pa \in {q \in PathParts : Alike(in.path, q)} :
               processorToToolName(ns, pa) = name

\* ("Core", "Resource/GetList") has been given the name that
\* ("core", "resource_getlist") has, modx_core_resource_getlist.
C23_Witness ==
  /\ lastEvt.op = "processorToToolName"
  /\ lastEvt.kind = "returned"
  /\ lastEvt.arg[1].namespace = <<"C", "o", "r", "e">>
  /\ Len(lastEvt.arg[1].path) = 16
  /\ lastEvt.arg[1].path[1] = "R"
  /\ lastEvt.res[1] =
       processorToToolName(<<"c", "o", "r", "e">>,
         <<"r", "e", "s", "o", "u", "r", "c", "e", "_", "g", "e", "t", "l", "i", "s", "t">>)
  /\ lastEvt.res[1] =
       <<"m", "o", "d", "x", "_", "c", "o", "r", "e", "_", "r", "e", "s", "o", "u",
         "r", "c", "e", "_", "g", "e", "t", "l", "i", "s", "t">>

IsErrorPayload(payload, message, name, arguments) ==
  /\ payload.isError
  /\ payload.text.success = FALSE
  /\ payload.text.error = message
  /\ payload.text.tool = name
  /\ IF arguments = None
     THEN "arguments" \notin DOMAIN payload.text
     ELSE payload.text.arguments = arguments[1]

\* C25: the tools/call handler never raises: a call that is refused for a
\* session that is not authenticated, whose HTTP call fails (expired
\* session, HTTP error, network error), or whose tool is unknown, is
\* answered with the failure payload of the request.
C25_ToolCallErrorsAreAnswered ==
  lastEvt.op = "tools/call" =>
    /\ lastEvt.kind # "threw"
    /\ (lastEvt.phase = "response"
          /\ CallProcessorOutcome(lastEvt.arg[1].response).kind = "threw") =>
         LET resp == lastEvt.arg[1].response
         IN  IsErrorPayload(lastEvt.res[1],
                            IF resp.kind = "status" /\ resp.status \in {401, 403}
                            THEN SessionExpired
                            ELSE CallProcessorError(resp),
                            lastEvt.arg[1].name, lastEvt.arg[1].arguments)
    /\ (lastEvt.phase = "call" /\ lastEvt.kind = "returned"
          /\ lastEvt.arg[1].name # SessionInfoToolName) =>
         \E message \in {NotAuthenticated, "Unknown tool: " \o Text(lastEvt.arg[1].name)} :
           IsErrorPayload(lastEvt.res[1], message,
                          lastEvt.arg[1].name, lastEvt.arg[1].arguments)

\* The call of a tool got a 401 and the request, which had arguments, has
\* been answered with the failure payload.
C25_Witness ==
  /\ Did("tools/call", "response")
  /\ lastEvt.arg[1].response.kind = "status"
  /\ lastEvt.arg[1].response.status = 401
  /\ lastEvt.arg[1].arguments = Some([limit |-> "3"])
  /\ lastEvt.res[1].isError
  /\ lastEvt.res[1].text.error = SessionExpired
  /\ lastEvt.res[1].text.arguments = [limit |-> "3"]

\* C26: a tools/call request for the session information tool is answered,
\* whatever the state of the session, with the snapshot of the session, not
\* marked isError, and it sends no HTTP request and changes no state.
C26_SessionInfoToolAlwaysAnswers ==
  [][(/\ lastEvt'.op = "tools/call"
      /\ lastEvt'.phase = "call"
      /\ lastEvt'.arg[1].name = SessionInfoToolName) =>
       LET payload == lastEvt'.res[1]
       IN  /\ lastEvt'.kind = "returned"
           /\ ~payload.isError
           /\ payload.text.isAuthenticated = sessionInfo.isAuthenticated
           /\ \A f \in DOMAIN sessionInfo \ {"isAuthenticated"} :
                IF sessionInfo[f] = None
                THEN f \notin DOMAIN payload.text
                ELSE payload.text[f] = sessionInfo[f][1]
           /\ UNCHANGED <<baseUrl, isAuthenticated, sessionInfo, processorCache,
                          authToken, inflight, lastLogin, expired, cookieJar,
                          handed, processorsCache>>]_vars

\* The session information tool has answered in a session that a 401 has
\* expired.
C26_Witness ==
  /\ Did("tools/call", "call")
  /\ lastEvt.arg[1].name = SessionInfoToolName
  /\ expired
  /\ ~isAuthenticated
  /\ ~lastEvt.res[1].isError
  /\ lastEvt.res[1].text.isAuthenticated = FALSE

\* The same in a session that logout has cleared after a successful login.
C26_LoggedOut ==
  /\ Did("tools/call", "call")
  /\ lastEvt.arg[1].name = SessionInfoToolName
  /\ lastLogin # None
  /\ ~expired
  /\ ~isAuthenticated
  /\ authToken = EmptyStr
  /\ ~lastEvt.res[1].isError

\* The request the last step answered or forwarded names a generated tool
\* that resolves in the cache of the dispatcher as it was before the step.
Resolved(name) ==
  /\ name # SessionInfoToolName
  /\ HasModxPrefix(name)
  /\ processorsCache # None
  /\ \E i \in 1..Len(ProcessorArray(processorsCache[1])) :
       createProcessorTool(ProcessorArray(processorsCache[1])[i]).name = name

\* The descriptor a resolved name stands for: the first of the cache whose
\* generated tool has that name.
ResolvedDescriptor(name) ==
  LET cache == ProcessorArray(processorsCache[1])
      first == CHOOSE i \in 1..Len(cache) :
                 /\ createProcessorTool(cache[i]).name = name
                 /\ \A j \in 1..(i - 1) : createProcessorTool(cache[j]).name # name
  IN  cache[first]

\* C27: a tools/call whose name resolves in the cache of the dispatcher
\* makes one callProcessor, with the namespace and path of the resolved
\* descriptor and the arguments of the request (no fields when the request
\* has none); in an authenticated session that call sends one request, and
\* when it returns a result the payload is that result, not marked isError.
C27_ResolvedToolIsForwarded ==
  [][/\ (/\ lastEvt'.op = "tools/call"
         /\ lastEvt'.phase = "call"
         /\ Resolved(lastEvt'.arg[1].name)
         /\ isAuthenticated) =>
          LET call == lastEvt'.arg[1]
              d == ResolvedDescriptor(call.name)
              data == IF call.arguments = None THEN <<>> ELSE call.arguments[1]
              req == [op |-> "callProcessor", caller |-> "tools/call",
                      connectorUrl |-> None, call |-> call,
                      inv |-> Invocation(Text(d.namespace), Text(d.path), data)]
          IN  /\ lastEvt'.kind = "sent"
              /\ inflight' = inflight (+) SetToBag({req})
              /\ lastEvt'.res[1] =
                   CallProcessorForm(Text(d.namespace), Text(d.path), authToken, data)
     /\ (/\ lastEvt'.op = "tools/call"
         /\ lastEvt'.phase = "response"
         /\ CallProcessorOutcome(lastEvt'.arg[1].response).kind = "returned") =>
          /\ ~lastEvt'.res[1].isError
          /\ lastEvt'.res[1].text =
               JsonStringify(CallProcessorOutcome(lastEvt'.arg[1].response).res[1])
          /\ BagCardinality(inflight') = BagCardinality(inflight) - 1
    ]_vars

\* The tool of P1 was called with arguments while the cache held P1 and
\* P2, and the result of the remote system has come back as the payload.
C27_Witness ==
  /\ Did("tools/call", "response")
  /\ processorsCache = Some("[p1,p2]")
  /\ lastEvt.arg[1].name = createProcessorTool(P1).name
  /\ lastEvt.arg[1].arguments = Some([limit |-> "3"])
  /\ lastEvt.arg[1].response.kind = "json"
  /\ ~lastEvt.res[1].isError
  /\ lastEvt.res[1].text.success = JTrue

\* The same tool was called with no arguments in an authenticated session
\* and the call is in flight with no data.
C27_Sent ==
  /\ Did("tools/call", "call")
  /\ lastEvt.kind = "sent"
  /\ lastEvt.arg[1] = ToolCall(createProcessorTool(P1).name, None)
  /\ \E req \in BagToSet(inflight) :
       /\ req.caller = "tools/call"
       /\ req.inv = Invocation("core", "r/g", <<>>)

\* createProcessorTool has returned the tool of the processor it was given.
Generated == lastEvt.op = "createProcessorTool" /\ lastEvt.kind = "returned"

\* The parameter is left out of the schema: its name is empty or begins
\* with an underscore.
Excluded(param) == param.name = <<>> \/ param.name[1] = "_"

\* C28: in the input schema of a generated tool no property is keyed by an
\* empty name or a name beginning with '_', every name of the required
\* list is a key of properties, and a name is in the required list exactly
\* when a parameter of that name is not excluded and has a required flag
\* that is exactly true.
C28_SchemaPropertiesAndRequired ==
  Generated =>
    LET parameters == lastEvt.arg[1].parameters
        schema == lastEvt.res[1].inputSchema
        required == schema.required[1]
    IN  /\ \A name \in DOMAIN schema.properties : name # <<>> /\ name[1] # "_"
        /\ \A i \in 1..Len(required) : required[i] \in DOMAIN schema.properties
        /\ \A i \in 1..Len(required) :
             \E j \in 1..Len(parameters) : parameters[j].name = required[i]
        /\ \A j \in 1..Len(parameters) :
             (\E i \in 1..Len(required) : required[i] = parameters[j].name)
               <=> \E k \in 1..Len(parameters) :
                     /\ parameters[k].name = parameters[j].name
                     /\ ~Excluded(parameters[k])
                     /\ parameters[k].required = JTrue

\* A tool was generated from a parameter that is required and kept and one
\* whose flag is the string "1": only the first is in the required list,
\* both are properties.
C28_Witness ==
  /\ Generated
  /\ Len(lastEvt.arg[1].parameters) = 2
  /\ lastEvt.arg[1].parameters[1].name = <<"a">>
  /\ lastEvt.arg[1].parameters[1].required = JTrue
  /\ lastEvt.arg[1].parameters[2].name = <<"q", "_">>
  /\ lastEvt.arg[1].parameters[2].required = "1"
  /\ lastEvt.res[1].inputSchema.required = Some(<<<<"a">>>>)
  /\ DOMAIN lastEvt.res[1].inputSchema.properties = {<<"a">>, <<"q", "_">>}

\* A tool was generated from a parameter that is excluded though its flag
\* is true: it is neither a property nor required.
C28_ExcludedRequired ==
  /\ Generated
  /\ Len(lastEvt.arg[1].parameters) = 1
  /\ lastEvt.arg[1].parameters[1].name = PermissionCheck
  /\ lastEvt.arg[1].parameters[1].required = JTrue
  /\ lastEvt.res[1].inputSchema.required = Some(<<>>)
  /\ DOMAIN lastEvt.res[1].inputSchema.properties = {}

\* The word is the type, whatever the case of the letters of the type.
SameWord(type, word) ==
  /\ Len(type) = Len(word)
  /\ \A i \in 1..Len(type) :
       type[i] = word[i] \/ \E k \in 1..26 : type[i] = Uppers[k] /\ word[i] = Lowers[k]

\* The schema type the mapping gives a parameter type.
SchemaTypeOf(type) ==
  IF SameWord(type, <<"i", "n", "t", "e", "g", "e", "r">>)
       \/ SameWord(type, <<"i", "n", "t">>) THEN "integer"
  ELSE IF SameWord(type, <<"b", "o", "o", "l", "e", "a", "n">>)
       \/ SameWord(type, <<"b", "o", "o", "l">>) THEN "boolean"
  ELSE IF SameWord(type, <<"a", "r", "r", "a", "y">>) THEN "array"
  ELSE IF SameWord(type, <<"o", "b", "j", "e", "c", "t">>) THEN "object"
  ELSE "string"

\* C29: the type of every property of a generated schema is one of integer,
\* boolean, string, array and object, and it is the one the mapping gives,
\* whatever the case of its letters, to the type of the parameter the
\* property was made from (string for any other type and for a missing one).
C29_SchemaTypeMapping ==
  Generated =>
    LET parameters == lastEvt.arg[1].parameters
        properties == lastEvt.res[1].inputSchema.properties
    IN  \A name \in DOMAIN properties :
          /\ properties[name].type \in {"integer", "boolean", "string", "array", "object"}
          /\ \E j \in 1..Len(parameters) :
               /\ parameters[j].name = name
               /\ properties[name].type = SchemaTypeOf(parameters[j].type)

\* A tool was generated from a parameter of type 'Boolean': the type of its
\* property is boolean.
C29_Witness ==
  /\ Generated
  /\ Len(lastEvt.arg[1].parameters) = 1
  /\ lastEvt.arg[1].parameters[1].name = <<"a">>
  /\ lastEvt.arg[1].parameters[1].type = <<"B", "o", "o", "l", "e", "a", "n">>
  /\ lastEvt.res[1].inputSchema.properties[<<"a">>].type = "boolean"

\* The same from a parameter with no type and from one of type 'float':
\* the type of the property is string.
C29_Defaulted ==
  /\ Generated
  /\ Len(lastEvt.arg[1].parameters) = 1
  /\ lastEvt.arg[1].parameters[1].name = <<"a">>
  /\ lastEvt.arg[1].parameters[1].type \in {<<>>, <<"f", "l", "o", "a", "t">>}
  /\ lastEvt.res[1].inputSchema.properties[<<"a">>].type = "string"

\* C30: a tools/call naming the tool modx_login, with a username, a
\* password and a baseUrl, is answered with a payload that has success true
\* and a user, and leaves the session authenticated.
C30_LoginToolLogsIn ==
  (/\ lastEvt.op = "tools/call"
   /\ lastEvt.kind = "returned"
   /\ lastEvt.arg[1].name = <<"m", "o", "d", "x", "_", "l", "o", "g", "i", "n">>
   /\ lastEvt.arg[1].arguments # None
   /\ {"username", "password", "baseUrl"} \subseteq DOMAIN lastEvt.arg[1].arguments[1]) =>
    /\ ~lastEvt.res[1].isError
    /\ lastEvt.res[1].text.success = JTrue
    /\ "user" \in DOMAIN lastEvt.res[1].text
    /\ isAuthenticated

\* C31 as stated: the authenticated flag, authToken and the session info
\* are changed by login, by the error path of callProcessor and by logout
\* only: no step of getProcessors, whatever its outcome, and no
\* callProcessor that returns a result changes any of them.
C31_OnlyLoginErrorsAndLogoutChangeSession ==
  [][(\/ lastEvt'.op = "getProcessors"
      \/ /\ lastEvt'.op = "callProcessor"
         /\ lastEvt'.phase = "response"
         /\ lastEvt'.kind = "returned") =>
       UNCHANGED <<isAuthenticated, authToken, sessionInfo>>]_vars

\* The session info but for lastActivity.
WithoutActivity(s) == [s EXCEPT !.lastActivity = None]

\* The step is the error path of a getProcessors or a callProcessor that
\* received a 401 or a 403.
ExpiryStep ==
  /\ lastEvt'.op \in {"getProcessors", "callProcessor"}
  /\ lastEvt'.phase = "response"
  /\ lastEvt'.kind = "threw"
  /\ lastEvt'.err = SessionExpired

\* C31, amended: authToken is changed by login and logout only; the
\* authenticated flag and the session info but for lastActivity are changed
\* by login, by logout and by the 401/403 error path of callProcessor and
\* of getProcessors only; lastActivity is also written when a getProcessors
\* or a callProcessor sends its request; a callProcessor that returns a
\* result changes none of them when it completes.
C31_SessionChanges ==
  [][/\ authToken' # authToken => lastEvt'.op \in {"login", "logout"}
     /\ (\/ isAuthenticated' # isAuthenticated
         \/ WithoutActivity(sessionInfo') # WithoutActivity(sessionInfo)) =>
          lastEvt'.op \in {"login", "logout"} \/ ExpiryStep
     /\ sessionInfo'.lastActivity # sessionInfo.lastActivity =>
          \/ lastEvt'.op \in {"login", "logout"}
          \/ /\ lastEvt'.op \in {"getProcessors", "callProcessor"}
             /\ lastEvt'.kind = "sent"
     /\ (/\ lastEvt'.op = "callProcessor"
         /\ lastEvt'.phase = "response"
         /\ lastEvt'.kind = "returned") =>
          UNCHANGED <<isAuthenticated, authToken, sessionInfo>>
    ]_vars

\* A getProcessors has received a 401 and ended the session a login opened.
C31_Witness ==
  /\ Did("getProcessors", "response")
  /\ lastEvt.err = SessionExpired
  /\ lastLogin # None
  /\ ~isAuthenticated
  /\ ~sessionInfo.isAuthenticated
  /\ sessionInfo.lastActivity = Date("getProcessors")

\* A response with an HTTP error status that is neither 401 nor 403.
ServerError == Response("status", 500, NoBody)

\* C32: when a getProcessors or a callProcessor receives an HTTP error
\* status other than 401 and 403, it raises an error whose message has the
\* status code, and the authenticated flag and authToken stay as they were:
\* in a session that was authenticated the next callProcessor and the next
\* forced getProcessors are sent, not refused.
C32_OtherStatusKeepsSession ==
  [][\A req \in BagToSet(inflight) :
       (GetProcessorsResponse(req, ServerError) \/ CallProcessorResponse(req, ServerError)) =>
         /\ lastEvt'.kind = "threw"
         /\ lastEvt'.err = "HTTP error 500"
         /\ UNCHANGED <<isAuthenticated, authToken>>
         /\ isAuthenticated => /\ ~CallProcessorRefused'
                               /\ GetProcessorsStartKind(TRUE)' = "sent"
    ]_vars

\* A callProcessor of an authenticated session has raised the error of a
\* 500 and the session is still authenticated.
C32_Witness ==
  /\ Did("callProcessor", "response")
  /\ lastEvt.kind = "threw"
  /\ lastEvt.err = "HTTP error 500"
  /\ isAuthenticated
  /\ authToken = "T1"

\* The same for a getProcessors.
C32_Discovery ==
  /\ Did("getProcessors", "response")
  /\ lastEvt.kind = "threw"
  /\ lastEvt.err = "HTTP error 500"
  /\ isAuthenticated

\* C33: in every state the authenticated flag of the service, which
\* getProcessors and callProcessor test, is the isAuthenticated of the
\* session info getSessionInfo returns, which tools/list tests.
C33_FlagAgreesWithSessionInfo ==
  isAuthenticated = getSessionInfo.isAuthenticated

\* A getProcessors, a callProcessor or the callProcessor of logout has
\* just sent its request.
SentForm ==
  /\ lastEvt.op \in {"getProcessors", "callProcessor", "logout"}
  /\ lastEvt.phase = "call"
  /\ lastEvt.kind = "sent"

\* The token of the response of the most recent login that succeeded, the
\* empty string when it had none.
LastLoginToken ==
  LET token == TokenOf(Get(lastLogin[1].object))
  IN  IF token = Undef THEN EmptyStr ELSE token

\* The caller of the callProcessor that has just sent its request gave
\* data with a HTTP_MODAUTH key.
CallerGaveToken ==
  /\ lastEvt.op = "callProcessor"
  /\ "HTTP_MODAUTH" \in DOMAIN lastEvt.arg[1].data

\* C34 as stated: every HTTP_MODAUTH value sent by getProcessors or
\* callProcessor is the token of the most recent login that succeeded (the
\* empty string when its response had none), and a request is sent in an
\* authenticated session only, so never after logout.
C34_TokenOfLastLoginAsStated ==
  SentForm =>
    /\ isAuthenticated
    /\ lastLogin # None
    /\ lastEvt.res[1].HTTP_MODAUTH = LastLoginToken

\* C34, amended: the same for every request but those of a callProcessor
\* whose caller gave data with a HTTP_MODAUTH key, which carry the value
\* of the caller.
C34_TokenOfLastLogin ==
  SentForm =>
    /\ isAuthenticated
    /\ lastLogin # None
    /\ lastEvt.res[1].HTTP_MODAUTH =
         IF CallerGaveToken THEN lastEvt.arg[1].data.HTTP_MODAUTH ELSE LastLoginToken

\* A request has been sent with T2, the token of the most recent login that
\* succeeded.
C34_Witness ==
  /\ SentForm
  /\ ~CallerGaveToken
  /\ lastEvt.res[1].HTTP_MODAUTH = "T2"
  /\ authToken = "T2"
  /\ TokenOf(Get(lastLogin[1].object)) = "T2"

\* A request is sent with an empty token after a login whose response had
\* no token.
C34_NoToken ==
  /\ SentForm
  /\ lastLogin[1].object = Absent
  /\ lastEvt.res[1].HTTP_MODAUTH = EmptyStr

\* C35: a callProcessor that receives a 401 makes the authenticated flag
\* false at that step; a callProcessor that was in flight with it and
\* completes afterwards ends with the result of its own response, and its
\* completion leaves the flag false.
C35_ExpiryDuringConcurrentCall ==
  [][\A req \in BagToSet(inflight) : \A resp \in CallResponses :
       CallProcessorResponse(req, resp) =>
         /\ (resp.kind = "status" /\ resp.status = 401) => ~isAuthenticated'
         /\ ~isAuthenticated =>
              /\ ~isAuthenticated'
              /\ resp.kind = "json" =>
                   /\ lastEvt'.kind = "returned"
                   /\ lastEvt'.res[1].success =
                        IF resp.body.success = JFalse THEN JFalse ELSE JTrue
              /\ resp.kind = "text" =>
                   lastEvt'.kind = "returned" /\ lastEvt'.res[1].raw = JTrue
              /\ (resp.kind = "status" /\ resp.status = 500) =>
                   lastEvt'.kind = "threw" /\ lastEvt'.err = "HTTP error 500"
    ]_vars

\* A callProcessor has returned its result in a session that the 401 of
\* another callProcessor, in flight with it, had ended.
C35_Witness ==
  /\ Did("callProcessor", "response")
  /\ lastEvt.kind = "returned"
  /\ lastEvt.res[1].success = JTrue
  /\ expired
  /\ ~isAuthenticated
  /\ ~sessionInfo.isAuthenticated

\* The field of a list made from a value of a discovery response: the
\* value, or the default where the response has none.
FromResponse(value, default) == IF value = Undef THEN default ELSE value

\* The list has its processors, total and generated_at all from one
\* discovery response.
Complete(list) ==
  \E o \in ListObjects :
    /\ list.processors = FromResponse(ProcessorsOf(o), "[]")
    /\ list.total = FromResponse(TotalOf(o), "0")
    /\ list.generated_at = FromResponse(GeneratedAtOf(o), "unknown")

\* C36: whatever discoveries are in flight, a getProcessors served from the
\* cache returns the cache as it is at that moment, which is the whole list
\* of one discovery response: the list of the last discovery that
\* completed, never one with fields of two responses and never none; the
\* cache changes only when a discovery completes, and then as a whole.
C36_ReadsSeeWholeSnapshots ==
  [][/\ (/\ lastEvt'.op = "getProcessors"
         /\ lastEvt'.phase = "call"
         /\ lastEvt'.kind = "returned") =>
          /\ processorCache # None
          /\ lastEvt'.res = processorCache
          /\ Complete(lastEvt'.res[1])
          /\ processorCache' = processorCache
     /\ processorCache' # processorCache =>
          /\ lastEvt'.op = "getProcessors"
          /\ lastEvt'.phase = "response"
          /\ Complete(processorCache'[1])
    ]_vars

\* A read has returned the list of the first discovery while another
\* discovery is in flight.
C36_Witness ==
  /\ Did("getProcessors", "call")
  /\ lastEvt.kind = "returned"
  /\ lastEvt.arg = Some(FALSE)
  /\ lastEvt.res = Some([processors |-> "[p1]", total |-> "1", generated_at |-> "t1"])
  /\ \E req \in BagToSet(inflight) : req.op = "getProcessors"

\* A read has returned the list of a later discovery, whose response had
\* no processors, after the cache had held the list of the first.
C36_NewSnapshot ==
  /\ Did("getProcessors", "call")
  /\ lastEvt.kind = "returned"
  /\ lastEvt.res = Some([processors |-> "[]", total |-> "0", generated_at |-> "unknown"])
  /\ \E req \in BagToSet(inflight) : req.op = "getProcessors"

\* The discovery requests that tools/list requests have sent and await.
DiscoveriesInFlight ==
  BagCardinality([req \in {r \in BagToSet(inflight) :
                             r.op = "getProcessors" /\ r.caller = "tools/list"} |->
                    inflight[req]])

\* C37: the tools/list requests that arrive while the session is
\* authenticated and the cache of the dispatcher is empty issue at most one
\* discovery request between them.
C37_OneDiscoveryForConcurrentLists ==
  DiscoveriesInFlight <= 1

\* C38: the names of the tools of a tools/list response, the fixed tool
\* included, are pairwise distinct.
C38_ListedNamesAreDistinct ==
  (lastEvt.op = "tools/list" /\ lastEvt.kind = "returned") =>
    LET tools == lastEvt.res[1]
    IN  \A i, j \in 1..Len(tools) : tools[i].name = tools[j].name => i = j

\* The step completes the discovery of a tools/list request.
ListCompletes == lastEvt'.op = "tools/list" /\ lastEvt'.phase = "response"

\* C39: a discovery of tools/list that fails answers with the fixed tool
\* and leaves the cache of the dispatcher as it was, empty when it was
\* empty; a tools/list that arrives while the session is authenticated and
\* that cache is empty sends a discovery; and a discovery that succeeds
\* populates the cache and answers with the fixed tool and the generated
\* tools of its response.
C39_FailedDiscoveryIsRetried ==
  [][/\ (ListCompletes /\ GetProcessorsOutcome(lastEvt'.arg[1]).kind = "threw") =>
          /\ processorsCache' = processorsCache
          /\ lastEvt'.kind = "returned"
          /\ lastEvt'.res[1] = baseTools
     /\ (/\ lastEvt'.op = "tools/list"
         /\ lastEvt'.phase = "call"
         /\ getSessionInfo.isAuthenticated
         /\ processorsCache = None) =>
          /\ lastEvt'.kind = "sent"
          /\ DiscoveriesInFlight' = DiscoveriesInFlight + 1
     /\ (ListCompletes /\ GetProcessorsOutcome(lastEvt'.arg[1]).kind = "returned") =>
          LET listed == ProcessorArray(ProcessorsOf(lastEvt'.arg[1].body.object))
          IN  /\ processorsCache' # None
              /\ Len(lastEvt'.res[1]) = 1 + Len(listed)
              /\ \A i \in 1..Len(listed) :
                   lastEvt'.res[1][i + 1].name =
                     processorToToolName(listed[i].namespace, listed[i].path)
    ]_vars

\* A discovery of tools/list has failed with a 500: the session is still
\* authenticated, the cache of the dispatcher is empty and the answer is
\* the fixed tool.
C39_Witness ==
  /\ Did("tools/list", "response")
  /\ lastEvt.arg[1].kind = "status"
  /\ lastEvt.arg[1].status = 500
  /\ lastEvt.res[1] = baseTools
  /\ isAuthenticated
  /\ getSessionInfo.isAuthenticated
  /\ processorsCache = None

\* A discovery of tools/list has succeeded and its two generated tools are
\* in the answer.
C39_Succeeded ==
  /\ Did("tools/list", "response")
  /\ lastEvt.arg[1].kind = "json"
  /\ processorsCache = Some("[p1,p2]")
  /\ Len(lastEvt.res[1]) = 3

\* A login is awaited.
LoginInFlight == \E req \in BagToSet(inflight) : req.op = "login"

\* C40: the login of the startup is the first thing the server does and is
\* made once; no tools/list or tools/call request is handled while it is in
\* flight; and when it completes, accepted, rejected or failed, nothing is
\* awaited any more and the server serves.
C40_LoginCompletesBeforeServing ==
  [][/\ (lastEvt'.op = "login" /\ lastEvt'.phase = "call") =>
          /\ lastEvt.op = "constructor"
          /\ inflight = EmptyBag
     /\ (lastEvt'.op \in {"tools/list", "tools/call"} /\ lastEvt'.phase = "call") =>
          ~LoginInFlight
     /\ (lastEvt'.op = "login" /\ lastEvt'.phase = "response") =>
          /\ lastEvt'.kind = "returned"
          /\ inflight' = EmptyBag
          /\ Serving'
    ]_vars

\* The login of the startup has been rejected or has failed: nothing is
\* awaited, the session is not authenticated and the server serves.
C40_Witness ==
  /\ Did("login", "response")
  /\ Serving
  /\ lastEvt.res[1].success = FALSE
  /\ inflight = EmptyBag
  /\ ~isAuthenticated

====
